---- MODULE Spec2Model ----
(***************************************************************************)
(* Model of the binding layer of bevy_fmod_simple (src/src/plugin.rs):     *)
(* the three entity -> engine id tables, the systems that create, free and *)
(* update engine objects once per frame, the deferred command buffers of   *)
(* those systems, and the engine seen through src/src/bridge.rs (ids are   *)
(* handed out by the engine, -1 on failure, reused after being freed).     *)
(*                                                                         *)
(* A frame is: "update" (the application spawns and despawns entities,     *)
(* adds and removes request components, an asset finishes loading), then  *)
(* "post" (every system of the PostUpdate schedule runs once, in an order  *)
(* the schedule leaves open), then the command buffers are applied, which  *)
(* ends the frame ("boundary").                                            *)
(***************************************************************************)
EXTENDS Integers, Sequences, FiniteSets, TLC

\* Bounds of the model.
NumEntities == 2
MaxId == 2
MaxEvents == 2
MaxFiles == 2
MaxGroup == 1
MaxVolume == 2
MaxPosition == 3
MaxListeners == 2

\* bridge.rs: "methods that return IDs will return -1 on failure".
Failure == -1

Entity == 1..NumEntities
EngineId == 0..(MaxId - 1)

\* The three request components: Handle<AudioSource>, AudioGeometry,
\* AudioReverbSphere.  The three resource classes share no state, so a run of
\* the model populates one of them: every entity of a run is given the same
\* kind of request.
Kinds == {"sound", "geometry", "reverb"}

SoundSystems == {"play_audio", "stop_audio", "detect_stopped_audio", "update_spatial_audio"}
GeometrySystems == {"add_geometry", "remove_geometry"}
ReverbSystems == {"add_reverb", "remove_reverb"}
Systems == SoundSystems \cup GeometrySystems \cup ReverbSystems

\* The threads that use the engine: two executor threads running systems (the
\* executor runs systems that share no resource in parallel), the asset
\* loader task calling AudioSource::from_memory, and a thread dropping an
\* AudioSource.
SystemThreads == {"system1", "system2"}
Loaders == {"loader"}
Droppers == {"dropper"}
Threads == SystemThreads \cup Loaders \cup Droppers

\* The systems that take a Commands parameter.
CommandSystems == {"play_audio", "stop_audio", "detect_stopped_audio"}

VARIABLES
    phase,             \* "update" | "post" | "boundary"
    ran,               \* systems that have run in the current frame
    spawned,           \* number of entities allocated so far
    alive,             \* entities that exist
    kind,              \* the kind of request component an entity is given
    request,           \* entities that carry their request component
    added,             \* entities whose request component the Added<> filter of
                       \* the creating system has not yet seen
    instance,          \* the AudioInstance component: entity -> channel id
    removed,           \* RemovedComponents<> events not yet read, per kind
    loaded,            \* Assets<AudioSource> holds the sound asset
    ids,               \* AudioInstanceMapping.ids
    just_removed,      \* AudioInstanceMapping.just_removed
    geometry_mapping,  \* GeometryInstanceMapping
    reverb_mapping,    \* ReverbInstanceMapping
    channels,          \* engine: live channel id -> entity it was created for
    geometries,        \* engine: live geometry ids
    reverbs,           \* engine: live reverb ids
    commands,          \* per system, the commands queued in this frame
    \* history, for stating the properties
    stale,             \* systems that named a channel id that is not the entity's live channel
    badFree,           \* free calls made on an id that is not live
    errors,            \* consistency errors logged in the current frame
    owed,              \* engine objects whose request component was removed while bound
    skipped,           \* why the creation pass left a request unbound
    attempts,          \* play_channel calls made for the current request component
    \* the BRIDGE mutex and the threads that use the engine
    holder,            \* the thread that holds the MutexGuard of BRIDGE, or "none"
    poisoned,          \* a thread panicked while holding the guard
    pc,                \* where each thread is
    result,            \* what load_audio_file returned to each loading thread
    sources,           \* ids of the AudioSource values that exist
    lockRan,           \* frame systems that have returned in the current frame
    \* one frame of the PostUpdate schedule, all systems of AudioSystem
    finished,          \* systems that have run (or were skipped) in this frame
    late,              \* systems that called the engine after update_system
    \* AudioSettings and what update_engine_settings pushes
    settings,          \* the AudioSettings resource
    changed,           \* AudioSettings was added or mutated since update_engine_settings last looked
    sstep,             \* "app" | "settings" | "advance": what comes next in the frame
    used,              \* groups that sounds were started in (ChannelParams.group_id)
    groupPush,         \* update_group calls of this frame: <<user_id, volume>>
    enginePush,        \* update_engine calls of this frame: the EngineParams
    \* FmodAudioPlugin::build
    initSettings,      \* FmodAudioPlugin.settings: empty before the app sets it
    initParams,        \* the InitParams passed to bridge::create: empty before build
    \* update_listener
    listener,          \* Local<ListenerData>
    lstep,             \* "frame" | "pushed"
    pushed,            \* ListenerParams of this frame's update_listener calls
    present,           \* this frame had exactly one AudioListener entity
    lastPose,          \* pose of the listener in the last frame that had one
    lframe,            \* what update_listener met in this frame, once it has run
    \* the velocities that update_listener and update_spatial_audio compute
    vstep,             \* "time" | "listener" | "sound": what comes next in the frame
    timeDelta,         \* Time::delta of the frame
    sound,             \* AudioInstance of the spatial sound, if it is bound
    soundPush,         \* update_channel calls of update_spatial_audio in this frame
    previous,          \* positions before this frame's update: of the listener and of the sound
    divisors,          \* the divisors of the divisions done in this frame
    \* one entity with an AudioGeometry or an AudioReverbSphere, and its engine object
    bphase,            \* "update" | "post"
    bran,              \* which of the add pass and the remove pass have run in this frame
    bworld,            \* the entity: its component, transform and change ticks
    bevents,           \* RemovedComponents events not yet read
    btable,            \* the mapping entry of the entity, if any
    bengine,           \* engine objects: id -> what was given at creation
    bcalls,            \* engine calls of this frame
    \* which channels update_spatial_audio moves
    pstep,             \* "update" | "post"
    hasTransform,      \* entities that have a GlobalTransform
    pinstance,         \* AudioInstance: entity -> channel id and the is_positional it was created with
    positionPush,      \* update_channel calls of update_spatial_audio in this frame
    \* plugin build and the engine it creates
    startup,           \* "building" | "created" | "registered" | "aborted"
    bridge,            \* what BRIDGE holds: nothing, or the pointer create returned
    registered,        \* per-frame systems added to the app
    called,            \* systems that have called the engine in this frame
    missing,           \* systems that reached for the engine and found none
    \* one playback request as play_audio handles it
    preq,              \* the entity with a newly added Handle<AudioSource>: its components
    passet,            \* the AudioSource asset, if it is in Assets<AudioSource>
    played,            \* play_audio has handled the request
    playCall,          \* the ChannelParams of its play_channel call
    playCmds,          \* the commands it queued for the entity
    playBound,         \* the id it put into mapping.ids for the entity
    \* one sound entity and update_audio_parameters
    uphase,            \* "update" | "post"
    uran,              \* which of play_audio, stop_audio and update_audio_parameters have run in this frame
    uworld,            \* the entity: Handle<AudioSource> and its Added tick, AudioParameters and its Changed tick, AudioInstance
    uevents,           \* RemovedComponents<Handle<AudioSource>> events not yet read
    uids,              \* mapping.ids: the channel id bound to the entity, if any
    ulive,             \* live channel ids
    ucmds,             \* commands queued in this frame, per system
    paramPush          \* update_channel calls of update_audio_parameters in this frame

sched == <<phase, ran>>
world == <<spawned, alive, kind, request, added, instance, removed, loaded>>
tables == <<ids, just_removed, geometry_mapping, reverb_mapping>>
engine == <<channels, geometries, reverbs>>
frameHist == <<stale, badFree, errors>>
hist == <<owed, skipped, attempts>>
vars == <<sched, world, tables, engine, commands, frameHist, hist>>

lockVars == <<holder, poisoned, pc, result, sources, lockRan>>

\* What the frame systems modelled above leave alone.
schedVars == <<finished, late>>
settingsVars == <<settings, changed, sstep, used, groupPush, enginePush>>
initVars == <<initSettings, initParams>>
listenerVars == <<listener, lstep, pushed, present, lastPose, lframe>>
velocityVars == <<vstep, timeDelta, sound, soundPush, previous, divisors>>
bakedVars == <<bphase, bran, bworld, bevents, btable, bengine, bcalls>>
spatialVars == <<pstep, hasTransform, pinstance, positionPush>>
startupVars == <<startup, bridge, registered, called, missing>>
playVars == <<preq, passet, played, playCall, playCmds, playBound>>
paramVars == <<uphase, uran, uworld, uevents, uids, ulive, ucmds, paramPush>>
others == <<lockVars, schedVars, settingsVars, initVars, listenerVars, velocityVars, bakedVars, spatialVars, startupVars, playVars, paramVars>>
notLock == <<vars, schedVars, settingsVars, initVars, listenerVars, velocityVars, bakedVars, spatialVars, startupVars, playVars, paramVars>>
notSched == <<vars, lockVars, settingsVars, initVars, listenerVars, velocityVars, bakedVars, spatialVars, startupVars, playVars, paramVars>>
notSettings == <<vars, lockVars, schedVars, initVars, listenerVars, velocityVars, bakedVars, spatialVars, startupVars, playVars, paramVars>>
notInit == <<vars, lockVars, schedVars, settingsVars, listenerVars, velocityVars, bakedVars, spatialVars, startupVars, playVars, paramVars>>
notListener == <<vars, lockVars, schedVars, settingsVars, initVars, velocityVars, bakedVars, spatialVars, startupVars, playVars, paramVars>>
notVelocity == <<vars, lockVars, schedVars, settingsVars, initVars, listenerVars, bakedVars, spatialVars, startupVars, playVars, paramVars>>
notVelocityListener == <<vars, lockVars, schedVars, settingsVars, initVars, bakedVars, spatialVars, startupVars, playVars, paramVars>>
notBaked == <<vars, lockVars, schedVars, settingsVars, initVars, listenerVars, velocityVars, spatialVars, startupVars, playVars, paramVars>>
notSpatial == <<vars, lockVars, schedVars, settingsVars, initVars, listenerVars, velocityVars, bakedVars, startupVars, playVars, paramVars>>
notStartup == <<vars, lockVars, schedVars, settingsVars, initVars, listenerVars, velocityVars, bakedVars, spatialVars, playVars, paramVars>>
notPlay == <<vars, lockVars, schedVars, settingsVars, initVars, listenerVars, velocityVars, bakedVars, spatialVars, startupVars, paramVars>>
notParams == <<vars, lockVars, schedVars, settingsVars, initVars, listenerVars, velocityVars, bakedVars, spatialVars, startupVars, playVars>>

----------------------------------------------------------------------------
\* HashMap<Entity, EngineId> as a function on the set of its keys.

EmptyMap == [e \in {} |-> 0]

\* HashMap::insert: a new key is added, an existing key's value is replaced.
MapInsert(m, e, i) == (e :> i) @@ m

\* HashMap::remove, the map afterwards.
MapRemove(m, e) == [x \in (DOMAIN m) \ {e} |-> m[x]]

MapInsertAll(m, new) == new @@ m

Range(m) == {m[x] : x \in DOMAIN m}

Sound(e) == e \in alive /\ kind[e] = "sound" /\ e \in request
Carries(k, e) == e \in alive /\ kind[e] = k /\ e \in request

Table(k) ==
    CASE k = "sound" -> ids
      [] k = "geometry" -> geometry_mapping
      [] k = "reverb" -> reverb_mapping

Live(k) ==
    CASE k = "sound" -> DOMAIN channels
      [] k = "geometry" -> geometries
      [] k = "reverb" -> reverbs

----------------------------------------------------------------------------
\* The state after FmodAudioPlugin::build: the resources are initialised to
\* their defaults (empty tables), the engine holds nothing, no entity exists.

\* AudioGroup ids, and volumes in units of half the full volume 1.0.
Group == 0..MaxGroup
Volume == 0..MaxVolume
DefaultMasterVolume == 1

\* The fields of AudioEngineSettings, each with two values: 1 is the default.
EngineFields == {"doppler_scale", "distance_scale", "rolloff_scale", "max_world_size"}
Scale == {1, 2}

\* impl Default for AudioSettings: no group has an entry, master volume 0.5,
\* enabled.
DefaultSettings ==
    [groups |-> EmptyMap, master_volume |-> DefaultMasterVolume, enabled |-> TRUE,
     engine |-> [f \in EngineFields |-> 1]]

\* impl Default for ListenerData: at the origin, looking along -Z, +Y up, no
\* velocity, no old position (an Option is a set of at most one value).
DefaultListenerData ==
    [data |-> [position |-> 0, velocity |-> 0, forward |-> "-Z", up |-> "+Y"],
     old_position |-> {}]

Init ==
    /\ phase = "update"
    /\ ran = {}
    /\ spawned = 0
    /\ alive = {}
    /\ kind = [e \in Entity |-> "sound"]
    /\ request = {}
    /\ added = {}
    /\ instance = EmptyMap
    /\ removed = [k \in Kinds |-> <<>>]
    /\ loaded = FALSE
    /\ ids = EmptyMap
    /\ just_removed = {}
    /\ geometry_mapping = EmptyMap
    /\ reverb_mapping = EmptyMap
    /\ channels = EmptyMap
    /\ geometries = {}
    /\ reverbs = {}
    /\ commands = [s \in CommandSystems |-> {}]
    /\ stale = {}
    /\ badFree = {}
    /\ errors = {}
    /\ owed = {}
    /\ skipped = [e \in Entity |-> "no"]
    /\ attempts = [e \in Entity |-> 0]
    /\ holder = "none"
    /\ poisoned = FALSE
    /\ pc = [t \in Threads |-> "idle"]
    /\ result = [t \in Loaders \cup Droppers |-> 0]
    /\ sources = {}
    /\ lockRan = {}
    /\ finished = {}
    /\ late = {}
    /\ settings = DefaultSettings
    /\ changed = TRUE
    /\ sstep = "app"
    /\ used = {}
    /\ groupPush = {}
    /\ enginePush = {}
    /\ initSettings = {}
    /\ initParams = {}
    /\ listener = DefaultListenerData
    /\ lstep = "frame"
    /\ pushed = {}
    /\ present = FALSE
    /\ lastPose = [position |-> 0, forward |-> "-Z", up |-> "+Y"]
    /\ lframe = {}
    /\ vstep = "time"
    /\ timeDelta = 0
    /\ sound = {}
    /\ soundPush = {}
    /\ previous = [listener |-> {}, sound |-> {}]
    /\ divisors = {}
    /\ bphase = "update"
    /\ bran = {}
    /\ bworld = [has |-> FALSE, kind |-> "geometry", added |-> FALSE, changed |-> FALSE,
                 transform |-> 0, data |-> 0]
    /\ bevents = 0
    /\ btable = {}
    /\ bengine = EmptyMap
    /\ bcalls = {}
    /\ pstep = "update"
    /\ hasTransform = {}
    /\ pinstance = EmptyMap
    /\ positionPush = {}
    /\ startup = "building"
    /\ bridge = {}
    /\ registered = {}
    /\ called = {}
    /\ missing = {}
    /\ preq = {}
    /\ passet = {}
    /\ played = FALSE
    /\ playCall = {}
    /\ playCmds = {}
    /\ playBound = {}
    /\ uphase = "update"
    /\ uran = {}
    /\ uworld = [handle |-> FALSE, added |-> FALSE, parameters |-> {}, changed |-> FALSE,
                 instance |-> {}]
    /\ uevents = 0
    /\ uids = {}
    /\ ulive = {}
    /\ ucmds = [s \in {"play_audio", "stop_audio"} |-> {}]
    /\ paramPush = {}

----------------------------------------------------------------------------
\* What the world does when a request component leaves an entity (the
\* component is removed, or the entity is despawned): a RemovedComponents
\* event is recorded for the readers of that component.  `by` is who caused
\* it ("user", or the system whose command despawned the entity).

Event(e, by) == [e |-> e, by |-> by]

\* The engine object bound to e at the time its request component leaves.
Owed(k, e) ==
    IF e \in DOMAIN Table(k) THEN {[k |-> k, e |-> e, id |-> Table(k)[e]]} ELSE {}

\* The application, in the Update schedule.

Spawn(e, k) ==
    /\ phase = "update"
    /\ e = spawned + 1
    /\ e \in Entity
    /\ \A o \in 1..spawned : kind[o] = k
    /\ spawned' = e
    /\ alive' = alive \cup {e}
    /\ kind' = [kind EXCEPT ![e] = k]
    /\ request' = request \cup {e}
    /\ added' = added \cup {e}
    /\ UNCHANGED <<sched, instance, removed, loaded, tables, engine, commands, frameHist, hist>>
    /\ UNCHANGED others

RemoveRequest(e) ==
    /\ phase = "update"
    /\ e \in alive
    /\ e \in request
    /\ Len(removed[kind[e]]) < MaxEvents
    /\ request' = request \ {e}
    /\ added' = added \ {e}
    /\ removed' = [removed EXCEPT ![kind[e]] = Append(@, Event(e, "user"))]
    /\ owed' = owed \cup Owed(kind[e], e)
    /\ skipped' = [skipped EXCEPT ![e] = "no"]
    /\ attempts' = [attempts EXCEPT ![e] = 0]
    /\ UNCHANGED <<sched, spawned, alive, kind, instance, loaded,
                   tables, engine, commands, frameHist>>
    /\ UNCHANGED others

InsertRequest(e) ==
    /\ phase = "update"
    /\ e \in alive
    /\ e \notin request
    /\ request' = request \cup {e}
    /\ added' = added \cup {e}
    /\ UNCHANGED <<sched, spawned, alive, kind, instance, removed, loaded,
                   tables, engine, commands, frameHist, hist>>
    /\ UNCHANGED others

Despawn(e) ==
    /\ phase = "update"
    /\ e \in alive
    /\ e \in request => Len(removed[kind[e]]) < MaxEvents
    /\ alive' = alive \ {e}
    /\ request' = request \ {e}
    /\ added' = added \ {e}
    /\ instance' = MapRemove(instance, e)
    /\ removed' = IF e \in request
                  THEN [removed EXCEPT ![kind[e]] = Append(@, Event(e, "user"))]
                  ELSE removed
    /\ owed' = IF e \in request THEN owed \cup Owed(kind[e], e) ELSE owed
    /\ skipped' = [skipped EXCEPT ![e] = "no"]
    /\ attempts' = [attempts EXCEPT ![e] = 0]
    /\ UNCHANGED <<sched, spawned, kind, loaded, tables, engine, commands, frameHist>>
    /\ UNCHANGED others

\* The asset loader task finishes; the asset is in Assets<AudioSource>.
LoadAsset ==
    /\ phase = "update"
    /\ ~loaded
    /\ loaded' = TRUE
    /\ UNCHANGED <<sched, spawned, alive, kind, request, added, instance,
                   removed, tables, engine, commands, frameHist, hist>>
    /\ UNCHANGED others

\* The strong handles to the sound asset that the world holds: the
\* Handle<AudioSource> component and AudioInstance._source.
Holders == {e \in alive : Sound(e) \/ e \in DOMAIN instance}

\* Drop for AudioSource: once no strong handle is left (the application keeps
\* none either) the asset is dropped between two frames, and the drop calls
\* free_audio_file.
DropSource ==
    /\ phase = "boundary"
    /\ loaded
    /\ Holders = {}
    /\ loaded' = FALSE
    /\ UNCHANGED <<sched, spawned, alive, kind, request, added, instance,
                   removed, tables, engine, commands, frameHist, hist>>
    /\ UNCHANGED others

\* The PostUpdate schedule starts.
RunSchedule ==
    /\ phase = "update"
    /\ phase' = "post"
    /\ ran' = ran
    /\ UNCHANGED <<world, tables, engine, commands, frameHist, hist>>
    /\ UNCHANGED others

\* The systems of one resource class share no state with those of another
\* (separate tables, separate id spaces in the engine, and the BRIDGE mutex
\* is held for a whole system body), so only the order within a class can be
\* observed; the classes are run one after the other.  Within a class the
\* schedule orders nothing: plugin.rs gives play_audio, stop_audio,
\* detect_stopped_audio and update_spatial_audio no before/after among each
\* other, nor add_* and remove_*.
Precedes(s) ==
    CASE s \in ReverbSystems -> {}
      [] s \in GeometrySystems -> ReverbSystems
      [] s \in SoundSystems -> ReverbSystems \cup GeometrySystems

CanRun(s) ==
    /\ phase = "post"
    /\ s \notin ran
    /\ Precedes(s) \subseteq ran

Done(s) == ran' = ran \cup {s} /\ phase' = phase

----------------------------------------------------------------------------
\* The engine behind the bridge.  A create call (play_channel, add_geometry,
\* add_reverb) returns -1 or an id that is not live at the time of the call;
\* an id freed earlier may be returned again.  Created(S, live) is the set of
\* possible outcomes of one create call per member of S, made one after the
\* other while nothing is freed.

Created(S, live) ==
    {res \in [S -> EngineId \cup {Failure}] :
        \A e \in S : res[e] # Failure =>
            /\ res[e] \notin live
            /\ \A f \in S \ {e} : res[f] # res[e]}

\* The part of the state the calls that name a channel touch.
Bridge == [channels |-> channels, stale |-> stale, badFree |-> badFree, owed |-> owed]

\* A call by system sys that names channel i on behalf of entity e
\* (update_channel, is_playing_channel, free_channel): it is stale when i is
\* not live, or is live as a channel created for another entity.
Names(b, sys, e, i) ==
    IF i \in DOMAIN b.channels /\ b.channels[i] = e
    THEN b
    ELSE [b EXCEPT !.stale = @ \cup {sys}]

\* free_channel(i)
FreeChannel(b, i) ==
    IF i \in DOMAIN b.channels
    THEN [b EXCEPT !.channels = MapRemove(@, i),
                   !.owed = {o \in @ : ~(o.k = "sound" /\ o.id = i)}]
    ELSE [b EXCEPT !.badFree = @ \cup {[k |-> "sound", id |-> i]}]

Command(op, e, i) == [op |-> op, e |-> e, id |-> i]

\* error!("removing non-existent ... for entity {entity:?}")
Error(k, ev) == [k |-> k, e |-> ev.e, by |-> ev.by]

Min(a, b) == IF a < b THEN a ELSE b

\* Cap of the history counter `attempts`.
MaxAttempts == 2

----------------------------------------------------------------------------
\* play_audio

\* The query without its Added<> filter: every entity with a Handle<AudioSource>.
NewAudioAll == {e \in Entity : Sound(e)}

\* Query<..., Added<Handle<AudioSource>>>: the entities whose Handle<AudioSource>
\* was added since play_audio last ran.
NewAudio == {e \in Entity : Sound(e) /\ e \in added}

\* mapping.ids.insert(entity, instance) for every created channel
BindAll(m, new) == MapInsertAll(m, new)

\* A creation pass that despawns nothing.
DroppedNone(new, ok, looped) == {}

\* `if !looped { commands.despawn_recursive(); }` on both failure paths: the
\* requests that were not bound and have no AudioLoop.
Dropped(new, ok, looped) == {e \in new \ ok : e \notin looped}

\* Option<&AudioLoop> is read here and nowhere else, and the application may
\* add or remove AudioLoop at any other time, so which of the requests are
\* looped is an input of the run.
play_audio ==
    /\ CanRun("play_audio")
    /\ LET new == NewAudio
           ready == {e \in new : loaded}       \* sounds.get(source) is Some
       IN \E res \in Created(ready, DOMAIN channels) :
          \E looped \in SUBSET {e \in new : e \notin ready \/ res[e] = Failure} :
            LET ok == {e \in ready : res[e] # Failure}
                dropped == Dropped(new, ok, looped)
                made == {res[e] : e \in ok}
            IN /\ channels' = [i \in (DOMAIN channels) \cup made |->
                                  IF i \in DOMAIN channels THEN channels[i]
                                  ELSE CHOOSE e \in ok : res[e] = i]
               /\ ids' = BindAll(ids, [e \in ok |-> res[e]])
               /\ commands' = [commands EXCEPT !["play_audio"] =
                                  {Command("despawn", e, Failure) : e \in dropped}
                                  \cup {Command("insert", e, res[e]) : e \in ok}]
               /\ attempts' = [e \in Entity |->
                                  IF e \in ready THEN Min(attempts[e] + 1, MaxAttempts)
                                  ELSE attempts[e]]
               /\ skipped' = [e \in Entity |->
                                  CASE e \in new \ ready -> "notready"
                                    [] e \in ready \ ok ->
                                          IF e \in looped THEN "failed" ELSE "failed_unlooped"
                                    [] e \in ok -> "no"
                                    [] OTHER -> skipped[e]]
    /\ added' = added \ {e \in Entity : kind[e] = "sound"}
    /\ Done("play_audio")
    /\ UNCHANGED <<spawned, alive, kind, request, instance, removed, loaded,
                   just_removed, geometry_mapping, reverb_mapping, geometries, reverbs,
                   frameHist, owed>>
    /\ UNCHANGED others

----------------------------------------------------------------------------
\* stop_audio

\* A remove that leaves the entry in place.
IdsRemoveKeep(m, e) == m

\* mapping.ids.remove(&entity), the table afterwards
IdsRemove(m, e) == MapRemove(m, e)

\* An iteration whose error arm drops the table and gives up the channels.
StopOneReset(st, ev) ==
    LET e == ev.e
        marked == e \in st.just_removed
        st1 == [st EXCEPT !.just_removed = @ \ {e}]
    IN IF e \in DOMAIN st.ids
       THEN LET i == st.ids[e] IN
            [st1 EXCEPT !.ids = IdsRemove(@, e),
                        !.cmds = IF e \in alive
                                 THEN @ \cup {Command("remove", e, Failure)} ELSE @,
                        !.bridge = FreeChannel(Names(@, "stop_audio", e, i), i)]
       ELSE IF marked THEN st1
       ELSE [st1 EXCEPT !.errors = @ \cup {Error("sound", ev)}, !.ids = EmptyMap]

\* An iteration that reads the marker without removing it.
StopOneMarked(st, ev) ==
    LET e == ev.e
        marked == e \in st.just_removed
    IN IF e \in DOMAIN st.ids
       THEN LET i == st.ids[e] IN
            [st EXCEPT !.ids = IdsRemove(@, e),
                       !.cmds = IF e \in alive
                                THEN @ \cup {Command("remove", e, Failure)} ELSE @,
                       !.bridge = FreeChannel(Names(@, "stop_audio", e, i), i)]
       ELSE IF marked THEN st
       ELSE [st EXCEPT !.errors = @ \cup {Error("sound", ev)}]

\* One iteration of `for entity in removed.read()`.
StopOne(st, ev) ==
    LET e == ev.e
        marked == e \in st.just_removed
        st1 == [st EXCEPT !.just_removed = @ \ {e}]
    IN IF e \in DOMAIN st.ids
       THEN LET i == st.ids[e] IN
            [st1 EXCEPT !.ids = IdsRemove(@, e),
                        !.cmds = IF e \in alive
                                 THEN @ \cup {Command("remove", e, Failure)} ELSE @,
                        !.bridge = FreeChannel(Names(@, "stop_audio", e, i), i)]
       ELSE IF marked THEN st1
       ELSE [st1 EXCEPT !.errors = @ \cup {Error("sound", ev)}]

RECURSIVE StopLoop(_, _)
StopLoop(st, evs) ==
    IF evs = <<>> THEN st ELSE StopLoop(StopOne(st, Head(evs)), Tail(evs))

stop_audio ==
    /\ CanRun("stop_audio")
    /\ LET st == StopLoop([ids |-> ids, just_removed |-> just_removed, cmds |-> {},
                           bridge |-> Bridge, errors |-> errors],
                          removed["sound"])
       IN /\ ids' = st.ids
          /\ just_removed' = st.just_removed
          /\ commands' = [commands EXCEPT !["stop_audio"] = st.cmds]
          /\ channels' = st.bridge.channels
          /\ stale' = st.bridge.stale
          /\ badFree' = st.bridge.badFree
          /\ owed' = st.bridge.owed
          /\ errors' = st.errors
    /\ removed' = [removed EXCEPT !["sound"] = <<>>]
    /\ Done("stop_audio")
    /\ UNCHANGED <<spawned, alive, kind, request, added, instance, loaded,
                   geometry_mapping, reverb_mapping, geometries, reverbs, skipped, attempts>>
    /\ UNCHANGED others

----------------------------------------------------------------------------
\* detect_stopped_audio

\* A retain whose closure always answers true.
RetainAll(m, stopped) == m

\* mapping.ids.retain(|entity, instance| keep): the entries kept
Retain(m, stopped) == [e \in (DOMAIN m) \ stopped |-> m[e]]

\* The closure without `mapping.just_removed.insert(*entity)`.
DetectOneNoMark(st, e, playing) ==
    LET i == ids[e]
        b == Names(st.bridge, "detect_stopped_audio", e, i)
    IN IF playing
       THEN [st EXCEPT !.bridge = b]
       ELSE [st EXCEPT !.bridge = FreeChannel(b, i),
                       !.cmds = IF e \in alive
                                THEN @ \cup {Command("despawn", e, Failure)} ELSE @]

\* The closure of retain for one entry; playing is is_playing_channel's answer.
DetectOne(st, e, playing) ==
    LET i == ids[e]
        b == Names(st.bridge, "detect_stopped_audio", e, i)
    IN IF playing
       THEN [st EXCEPT !.bridge = b]
       ELSE [st EXCEPT !.bridge = FreeChannel(b, i),
                       !.cmds = IF e \in alive
                                THEN @ \cup {Command("despawn", e, Failure)} ELSE @,
                       !.just_removed = @ \cup {e}]

RECURSIVE DetectLoop(_, _, _)
DetectLoop(st, todo, stopped) ==
    IF todo = {} THEN st
    ELSE LET e == CHOOSE x \in todo : \A y \in todo : x <= y
         IN DetectLoop(DetectOne(st, e, e \notin stopped), todo \ {e}, stopped)

detect_stopped_audio ==
    /\ CanRun("detect_stopped_audio")
    /\ \E stopped \in SUBSET (DOMAIN ids) :
         LET st == DetectLoop([just_removed |-> just_removed, cmds |-> {}, bridge |-> Bridge],
                              DOMAIN ids, stopped)
         IN /\ ids' = Retain(ids, stopped)
            /\ just_removed' = st.just_removed
            /\ commands' = [commands EXCEPT !["detect_stopped_audio"] = st.cmds]
            /\ channels' = st.bridge.channels
            /\ stale' = st.bridge.stale
            /\ badFree' = st.bridge.badFree
            /\ owed' = st.bridge.owed
    /\ Done("detect_stopped_audio")
    /\ UNCHANGED <<world, geometry_mapping, reverb_mapping, geometries, reverbs,
                   errors, skipped, attempts>>
    /\ UNCHANGED others

----------------------------------------------------------------------------
\* update_spatial_audio

\* Query<(&GlobalTransform, &mut AudioInstance)>.  GlobalTransform is the
\* application's to add and remove; which entities have it is an input.
SpatialSounds(transform) == {e \in alive : e \in transform /\ e \in DOMAIN instance}

RECURSIVE SpatialLoop(_, _)
SpatialLoop(b, todo) ==
    IF todo = {} THEN b
    ELSE LET e == CHOOSE x \in todo : \A y \in todo : x <= y
         IN SpatialLoop(Names(b, "update_spatial_audio", e, instance[e]), todo \ {e})

update_spatial_audio ==
    /\ CanRun("update_spatial_audio")
    /\ \E transform \in SUBSET (alive \cap DOMAIN instance) :
         stale' = SpatialLoop(Bridge, SpatialSounds(transform)).stale
    /\ Done("update_spatial_audio")
    /\ UNCHANGED <<world, tables, engine, commands, badFree, errors, hist>>
    /\ UNCHANGED others

----------------------------------------------------------------------------
\* Geometry and reverb: add_geometry / remove_geometry and add_reverb /
\* remove_reverb have the same shape, over their own table and id space.

\* Query<(Entity, &AudioGeometry, &GlobalTransform), Added<AudioGeometry>> and
\* Query<(Entity, &AudioReverbSphere, &GlobalTransform), Added<AudioReverbSphere>>
NewObjects(k, transform) == {e \in Entity : Carries(k, e) /\ e \in added /\ e \in transform}

\* A loop that binds whatever the engine answered.
AddObjectsAll(table, live, new, res) ==
    [table |-> MapInsertAll(table, [e \in new |-> res[e]]),
     live |-> live \cup {res[e] : e \in new},
     failed |-> {}]

\* The loop of add_geometry / add_reverb over `new` with the engine's answers
\* res: the table, the live ids and the failures afterwards.
AddObjects(table, live, new, res) ==
    LET ok == {e \in new : res[e] # Failure}
    IN [table |-> MapInsertAll(table, [e \in ok |-> res[e]]),
        live |-> live \cup {res[e] : e \in ok},
        failed |-> new \ ok]

\* One iteration of the loop of remove_geometry / remove_reverb.
RemoveOne(st, k, ev) ==
    LET e == ev.e IN
    IF e \in DOMAIN st.table
    THEN LET i == st.table[e] IN
         [st EXCEPT !.table = MapRemove(@, e),
                    !.live = @ \ {i},
                    !.badFree = IF i \in st.live THEN @ ELSE @ \cup {[k |-> k, id |-> i]},
                    !.owed = IF i \in st.live
                             THEN {o \in @ : ~(o.k = k /\ o.id = i)} ELSE @]
    ELSE [st EXCEPT !.errors = @ \cup {Error(k, ev)}]

RECURSIVE RemoveLoop(_, _, _)
RemoveLoop(st, k, evs) ==
    IF evs = <<>> THEN st ELSE RemoveLoop(RemoveOne(st, k, Head(evs)), k, Tail(evs))

RemoveObjects(k, table, live) ==
    RemoveLoop([table |-> table, live |-> live, badFree |-> badFree, owed |-> owed,
                errors |-> errors], k, removed[k])

MarkSkipped(k, new, failed) ==
    [e \in Entity |->
        CASE e \in failed -> "failed"
          [] e \in new -> "no"
          [] Carries(k, e) /\ e \in added -> "notransform"
          [] OTHER -> skipped[e]]

add_geometry ==
    /\ CanRun("add_geometry")
    /\ \E transform \in SUBSET {e \in Entity : Carries("geometry", e) /\ e \in added} :
       LET new == NewObjects("geometry", transform) IN
       \E res \in Created(new, geometries) :
          LET r == AddObjects(geometry_mapping, geometries, new, res)
          IN /\ geometry_mapping' = r.table
             /\ geometries' = r.live
             /\ skipped' = MarkSkipped("geometry", new, r.failed)
    /\ added' = added \ {e \in Entity : kind[e] = "geometry"}
    /\ Done("add_geometry")
    /\ UNCHANGED <<spawned, alive, kind, request, instance, removed, loaded,
                   ids, just_removed, reverb_mapping, channels, reverbs, commands,
                   frameHist, owed, attempts>>
    /\ UNCHANGED others

remove_geometry ==
    /\ CanRun("remove_geometry")
    /\ LET st == RemoveObjects("geometry", geometry_mapping, geometries)
       IN /\ geometry_mapping' = st.table
          /\ geometries' = st.live
          /\ badFree' = st.badFree
          /\ owed' = st.owed
          /\ errors' = st.errors
    /\ removed' = [removed EXCEPT !["geometry"] = <<>>]
    /\ Done("remove_geometry")
    /\ UNCHANGED <<spawned, alive, kind, request, added, instance, loaded,
                   ids, just_removed, reverb_mapping, channels, reverbs, commands,
                   stale, skipped, attempts>>
    /\ UNCHANGED others

add_reverb ==
    /\ CanRun("add_reverb")
    /\ \E transform \in SUBSET {e \in Entity : Carries("reverb", e) /\ e \in added} :
       LET new == NewObjects("reverb", transform) IN
       \E res \in Created(new, reverbs) :
          LET r == AddObjects(reverb_mapping, reverbs, new, res)
          IN /\ reverb_mapping' = r.table
             /\ reverbs' = r.live
             /\ skipped' = MarkSkipped("reverb", new, r.failed)
    /\ added' = added \ {e \in Entity : kind[e] = "reverb"}
    /\ Done("add_reverb")
    /\ UNCHANGED <<spawned, alive, kind, request, instance, removed, loaded,
                   ids, just_removed, geometry_mapping, channels, geometries, commands,
                   frameHist, owed, attempts>>
    /\ UNCHANGED others

remove_reverb ==
    /\ CanRun("remove_reverb")
    /\ LET st == RemoveObjects("reverb", reverb_mapping, reverbs)
       IN /\ reverb_mapping' = st.table
          /\ reverbs' = st.live
          /\ badFree' = st.badFree
          /\ owed' = st.owed
          /\ errors' = st.errors
    /\ removed' = [removed EXCEPT !["reverb"] = <<>>]
    /\ Done("remove_reverb")
    /\ UNCHANGED <<spawned, alive, kind, request, added, instance, loaded,
                   ids, just_removed, geometry_mapping, channels, geometries, commands,
                   stale, skipped, attempts>>
    /\ UNCHANGED others

----------------------------------------------------------------------------
\* The end of the schedule: the command buffers of the systems are applied to
\* the world, one system's buffer after another.  Within one buffer there is
\* at most one kind of command per entity, so a buffer is a set.

World == [alive |-> alive, request |-> request, added |-> added,
          instance |-> instance, removed |-> removed,
          owed |-> owed, skipped |-> skipped, attempts |-> attempts]

\* despawn_recursive: the entity and its components go; a RemovedComponents
\* event is recorded for the request component it carried.
ApplyDespawn(w, e, by) ==
    IF e \notin w.alive THEN w
    ELSE [w EXCEPT !.alive = @ \ {e},
                   !.request = @ \ {e},
                   !.added = @ \ {e},
                   !.instance = MapRemove(@, e),
                   !.removed = IF e \in w.request
                               THEN [@ EXCEPT ![kind[e]] = Append(@, Event(e, by))]
                               ELSE @,
                   !.owed = IF e \in w.request THEN @ \cup Owed(kind[e], e) ELSE @,
                   !.skipped = [@ EXCEPT ![e] = "no"],
                   !.attempts = [@ EXCEPT ![e] = 0]]

\* insert(AudioInstance {..}) and remove::<AudioInstance>()
ApplyCommand(w, c, by) ==
    CASE c.op = "despawn" -> ApplyDespawn(w, c.e, by)
      [] c.op = "insert" ->
            IF c.e \in w.alive
            THEN [w EXCEPT !.instance = MapInsert(@, c.e, c.id)] ELSE w
      [] c.op = "remove" -> [w EXCEPT !.instance = MapRemove(@, c.e)]

RECURSIVE ApplyBuffer(_, _, _)
ApplyBuffer(w, cmds, by) ==
    IF cmds = {} THEN w
    ELSE LET c == CHOOSE x \in cmds : \A y \in cmds : x.e <= y.e
         IN ApplyBuffer(ApplyCommand(w, c, by), cmds \ {c}, by)

RECURSIVE ApplyBuffers(_, _)
ApplyBuffers(w, order) ==
    IF order = <<>> THEN w
    ELSE ApplyBuffers(ApplyBuffer(w, commands[Head(order)], Head(order)), Tail(order))

\* The orders in which the buffers can be applied: the schedule orders the
\* three systems in no way.
BufferOrders ==
    {o \in [1..3 -> CommandSystems] : \A i, j \in 1..3 : i # j => o[i] # o[j]}

ApplyDeferred ==
    /\ phase = "post"
    /\ ran = Systems
    /\ \E order \in BufferOrders :
         LET w == ApplyBuffers(World, order)
         IN /\ alive' = w.alive
            /\ request' = w.request
            /\ added' = w.added
            /\ instance' = w.instance
            /\ removed' = w.removed
            /\ owed' = w.owed
            /\ skipped' = w.skipped
            /\ attempts' = w.attempts
    /\ commands' = [s \in CommandSystems |-> {}]
    /\ phase' = "boundary"
    /\ ran' = {}
    /\ stale' = {}
    /\ errors' = {}
    /\ UNCHANGED <<spawned, kind, loaded, tables, engine, badFree>>
    /\ UNCHANGED others

\* The next frame starts.
BeginFrame ==
    /\ phase = "boundary"
    /\ phase' = "update"
    /\ UNCHANGED <<ran, world, tables, engine, commands, frameHist, hist>>
    /\ UNCHANGED others

Next ==
    \/ \E e \in Entity, k \in Kinds : Spawn(e, k)
    \/ \E e \in Entity : RemoveRequest(e)
    \/ \E e \in Entity : InsertRequest(e)
    \/ \E e \in Entity : Despawn(e)
    \/ LoadAsset
    \/ DropSource
    \/ RunSchedule
    \/ play_audio
    \/ stop_audio
    \/ detect_stopped_audio
    \/ update_spatial_audio
    \/ add_geometry
    \/ remove_geometry
    \/ add_reverb
    \/ remove_reverb
    \/ ApplyDeferred
    \/ BeginFrame

Spec == Init /\ [][Next]_vars

----------------------------------------------------------------------------
\* The BRIDGE mutex.  Every function that uses the engine starts with
\* BRIDGE.lock().unwrap() and keeps the guard until it returns.  A thread is
\* at "idle" (outside such a function), "locked" (holds the guard, between
\* engine calls), "engine" (inside an engine call), and for the loader also
\* "loaded" (load_audio_file has returned) and "dropping" (in Drop::drop of
\* the value it built); "freed" is the dropper after free_audio_file.

FileId == 0..(MaxFiles - 1)

\* A lock that is handed out whoever holds it.
CanLockAlways(t) == TRUE

\* std::sync::Mutex::lock returns to a thread only when no thread holds the guard.
CanLock(t) == holder = "none"

\* BRIDGE.lock().unwrap() by thread t: on a poisoned mutex lock() returns Err
\* and unwrap panics (the guard inside the error is dropped again).
Lock(t) ==
    /\ pc[t] = "idle"
    /\ CanLock(t)
    /\ IF poisoned
       THEN pc' = [pc EXCEPT ![t] = "panicked"] /\ holder' = holder
       ELSE pc' = [pc EXCEPT ![t] = "locked"] /\ holder' = t

\* A guard that is never dropped.
UnlockKept(t) == holder' = holder

\* The guard goes out of scope.
Unlock(t) == holder' = IF holder = t THEN "none" ELSE holder

\* A frame system (play_audio, stop_audio, ..., update_system).
SystemLock(t) ==
    /\ t \in SystemThreads
    /\ t \notin lockRan
    /\ Lock(t)
    /\ UNCHANGED <<poisoned, result, sources, lockRan, notLock>>

SystemCall(t) ==
    /\ t \in SystemThreads
    /\ pc[t] = "locked"
    /\ pc' = [pc EXCEPT ![t] = "engine"]
    /\ UNCHANGED <<holder, poisoned, result, sources, lockRan, notLock>>

SystemReturn(t) ==
    /\ t \in SystemThreads
    /\ pc[t] = "engine"
    /\ pc' = [pc EXCEPT ![t] = "locked"]
    /\ UNCHANGED <<holder, poisoned, result, sources, lockRan, notLock>>

SystemUnlock(t) ==
    /\ t \in SystemThreads
    /\ pc[t] = "locked"
    /\ pc' = [pc EXCEPT ![t] = "idle"]
    /\ Unlock(t)
    /\ lockRan' = lockRan \cup {t}
    /\ UNCHANGED <<poisoned, result, sources, notLock>>

\* The schedule ends when every system of the frame has returned; the next
\* frame runs them again.
EndOfLockFrame ==
    /\ lockRan = SystemThreads
    /\ lockRan' = {}
    /\ UNCHANGED <<holder, poisoned, pc, result, sources, notLock>>

\* AudioSource::from_memory / AudioSource::stream_file.
LoaderLock(t) ==
    /\ t \in Loaders
    /\ Lock(t)
    /\ UNCHANGED <<poisoned, result, sources, lockRan, notLock>>

\* bridge.load_audio_file(..)
LoaderCall(t) ==
    /\ t \in Loaders
    /\ pc[t] = "locked"
    /\ pc' = [pc EXCEPT ![t] = "engine"]
    /\ UNCHANGED <<holder, poisoned, result, sources, lockRan, notLock>>

\* load_audio_file returns -1 or the id of a new file.
LoaderReturn(t, r) ==
    /\ t \in Loaders
    /\ pc[t] = "engine"
    /\ r \in (FileId \ sources) \cup {Failure}
    /\ pc' = [pc EXCEPT ![t] = "loaded"]
    /\ result' = [result EXCEPT ![t] = r]
    /\ UNCHANGED <<holder, poisoned, sources, lockRan, notLock>>

\* (instance != -1).then_some(Self::new(instance)): the argument is evaluated
\* whatever the condition is.  With the condition true the value is returned
\* in Some and the guard is dropped on return.
LoaderSome(t) ==
    /\ t \in Loaders
    /\ pc[t] = "loaded"
    /\ result[t] # Failure
    /\ sources' = sources \cup {result[t]}
    /\ pc' = [pc EXCEPT ![t] = "idle"]
    /\ Unlock(t)
    /\ UNCHANGED <<poisoned, result, lockRan, notLock>>

\* With the condition false then_some drops the AudioSource {id: -1} it was
\* given, which runs Drop::drop on this thread, inside from_memory.
LoaderNone(t) ==
    /\ t \in Loaders
    /\ pc[t] = "loaded"
    /\ result[t] = Failure
    /\ pc' = [pc EXCEPT ![t] = "dropping"]
    /\ UNCHANGED <<holder, poisoned, result, sources, lockRan, notLock>>

\* Drop::drop calls BRIDGE.lock() on the thread that holds the guard: the
\* call does not return, "it might panic or deadlock" (std).  A panic unwinds
\* from_memory, which drops the guard and poisons the mutex.
LoaderRelock(t, outcome) ==
    /\ t \in Loaders
    /\ pc[t] = "dropping"
    /\ outcome \in {"deadlocked", "panicked"}
    /\ pc' = [pc EXCEPT ![t] = outcome]
    /\ IF outcome = "panicked"
       THEN poisoned' = TRUE /\ Unlock(t)
       ELSE UNCHANGED <<poisoned, holder>>
    /\ UNCHANGED <<result, sources, lockRan, notLock>>

\* Drop for AudioSource, run for a value that exists.
DropLock(t, i) ==
    /\ t \in Droppers
    /\ i \in sources
    /\ Lock(t)
    /\ result' = [result EXCEPT ![t] = i]
    /\ UNCHANGED <<poisoned, sources, lockRan, notLock>>

\* bridge.free_audio_file(self.id)
DropCall(t) ==
    /\ t \in Droppers
    /\ pc[t] = "locked"
    /\ pc' = [pc EXCEPT ![t] = "engine"]
    /\ UNCHANGED <<holder, poisoned, result, sources, lockRan, notLock>>

DropReturn(t) ==
    /\ t \in Droppers
    /\ pc[t] = "engine"
    /\ pc' = [pc EXCEPT ![t] = "freed"]
    /\ sources' = sources \ {result[t]}
    /\ UNCHANGED <<holder, poisoned, result, lockRan, notLock>>

DropUnlock(t) ==
    /\ t \in Droppers
    /\ pc[t] = "freed"
    /\ pc' = [pc EXCEPT ![t] = "idle"]
    /\ Unlock(t)
    /\ UNCHANGED <<poisoned, result, sources, lockRan, notLock>>

NextLock ==
    \/ \E t \in Threads : SystemLock(t)
    \/ \E t \in Threads : SystemCall(t)
    \/ \E t \in Threads : SystemReturn(t)
    \/ \E t \in Threads : SystemUnlock(t)
    \/ \E t \in Threads : LoaderLock(t)
    \/ \E t \in Threads : LoaderCall(t)
    \/ \E t \in Threads, r \in FileId \cup {Failure} : LoaderReturn(t, r)
    \/ \E t \in Threads : LoaderSome(t)
    \/ \E t \in Threads : LoaderNone(t)
    \/ \E t \in Threads, o \in {"deadlocked", "panicked"} : LoaderRelock(t, o)
    \/ \E t \in Threads, i \in FileId : DropLock(t, i)
    \/ \E t \in Threads : DropCall(t)
    \/ \E t \in Threads : DropReturn(t)
    \/ \E t \in Threads : DropUnlock(t)
    \/ EndOfLockFrame

SpecLock == Init /\ [][NextLock]_<<vars, others>>

----------------------------------------------------------------------------
\* The PostUpdate schedule as FmodAudioPlugin::build declares it: every system
\* of AudioSystem runs once per frame, in any order that respects the declared
\* .before() / .after() constraints.

AudioSystem ==
    Systems \cup {"update_listener", "update_system", "update_engine_settings",
                  "update_audio_parameters"}

Playback ==
    {"play_audio", "stop_audio", "detect_stopped_audio", "update_spatial_audio",
     "update_audio_parameters"}

AfterTransformPropagate ==
    {"update_listener", "play_audio", "update_spatial_audio", "add_geometry",
     "add_reverb"}

Scheduled == AudioSystem \cup {"TransformPropagate"}

\* a runs before b.
Before(a, b) ==
    \/ a = "TransformPropagate" /\ b \in AfterTransformPropagate
    \/ a = "update_listener" /\ b = "update_system"
    \/ a = "update_engine_settings" /\ b = "update_system"
    \/ a = "play_audio" /\ b = "update_engine_settings"
    \/ a \in Playback /\ b = "update_system"

\* Whether a run of system s can make engine calls: update_listener and
\* update_system always do, the others when they have work (calls), and
\* update_engine_settings when its run condition lets it run.
Calls(s, calls) ==
    CASE s \in {"update_listener", "update_system"} -> TRUE
      [] s = "TransformPropagate" -> FALSE
      [] OTHER -> calls

RunSystem(s, calls) ==
    /\ s \in Scheduled \ finished
    /\ \A b \in Scheduled : Before(b, s) => b \in finished
    /\ finished' = finished \cup {s}
    /\ late' = IF Calls(s, calls) /\ s # "update_system" /\ "update_system" \in finished
               THEN late \cup {s}
               ELSE late
    /\ UNCHANGED notSched

EndOfSchedule ==
    /\ finished = Scheduled
    /\ finished' = {}
    /\ late' = {}
    /\ UNCHANGED notSched

NextSched ==
    \/ \E s \in Scheduled, calls \in BOOLEAN : RunSystem(s, calls)
    \/ EndOfSchedule

SpecSched == Init /\ [][NextSched]_<<vars, others>>

----------------------------------------------------------------------------
\* AudioSettings and update_engine_settings.  The app mutates the resource
\* between frames; in PostUpdate update_engine_settings runs if the resource
\* changed, and then update_system advances the engine.

\* The master volume taken as it is, enabled or not.
MasterVolumeEnabled(st) == st.master_volume

\* settings.enabled.then_some(settings.master_volume).unwrap_or(0.)
MasterVolume(st) == IF st.enabled THEN st.master_volume ELSE 0

\* The update_group calls of update_engine_settings.
GroupParams(st) ==
    {<<g, st.groups[g] * MasterVolume(st)>> : g \in DOMAIN st.groups}

\* settings.groups.insert(AudioGroup(g), AudioGroupParameters {volume: v})
SetGroup(g, v) ==
    /\ sstep = "app"
    /\ settings' = [settings EXCEPT !.groups = MapInsert(settings.groups, g, v)]
    /\ changed' = TRUE
    /\ UNCHANGED <<sstep, used, groupPush, enginePush, notSettings>>

\* settings.groups.remove(&AudioGroup(g))
RemoveGroup(g) ==
    /\ sstep = "app"
    /\ g \in DOMAIN settings.groups
    /\ settings' = [settings EXCEPT !.groups = MapRemove(settings.groups, g)]
    /\ changed' = TRUE
    /\ UNCHANGED <<sstep, used, groupPush, enginePush, notSettings>>

SetMasterVolume(v) ==
    /\ sstep = "app"
    /\ settings' = [settings EXCEPT !.master_volume = v]
    /\ changed' = TRUE
    /\ UNCHANGED <<sstep, used, groupPush, enginePush, notSettings>>

SetEnabled(b) ==
    /\ sstep = "app"
    /\ settings' = [settings EXCEPT !.enabled = b]
    /\ changed' = TRUE
    /\ UNCHANGED <<sstep, used, groupPush, enginePush, notSettings>>

SetEngine(f, v) ==
    /\ sstep = "app"
    /\ settings' = [settings EXCEPT !.engine[f] = v]
    /\ changed' = TRUE
    /\ UNCHANGED <<sstep, used, groupPush, enginePush, notSettings>>

\* play_audio starts a sound in group g: the AudioGroup of the entity, or the
\* default group.
PlayInGroup(g) ==
    /\ sstep = "app"
    /\ used' = used \cup {g}
    /\ sstep' = "settings"
    /\ UNCHANGED <<settings, changed, groupPush, enginePush, notSettings>>

\* PostUpdate of a frame in which play_audio starts nothing.
PlayNothing ==
    /\ sstep = "app"
    /\ sstep' = "settings"
    /\ UNCHANGED <<settings, changed, used, groupPush, enginePush, notSettings>>

\* update_engine_settings.run_if(resource_changed::<AudioSettings>)
update_engine_settings ==
    /\ sstep = "settings"
    /\ IF changed
       THEN /\ groupPush' = GroupParams(settings)
            /\ enginePush' = {settings.engine}
       ELSE UNCHANGED <<groupPush, enginePush>>
    /\ changed' = FALSE
    /\ sstep' = "advance"
    /\ UNCHANGED <<settings, used, notSettings>>

\* update_system, and the end of the frame.
update_system ==
    /\ sstep = "advance"
    /\ sstep' = "app"
    /\ groupPush' = {}
    /\ enginePush' = {}
    /\ UNCHANGED <<settings, changed, used, notSettings>>

NextSettings ==
    \/ \E g \in Group, v \in Volume : SetGroup(g, v)
    \/ \E g \in Group : RemoveGroup(g)
    \/ \E v \in Volume : SetMasterVolume(v)
    \/ \E b \in BOOLEAN : SetEnabled(b)
    \/ \E f \in EngineFields, v \in Scale : SetEngine(f, v)
    \/ \E g \in Group : PlayInGroup(g)
    \/ PlayNothing
    \/ update_engine_settings
    \/ update_system

SpecSettings == Init /\ [][NextSettings]_<<vars, others>>

----------------------------------------------------------------------------
\* FmodAudioPlugin::build: the two channel bounds are usize values, clamped
\* with min and converted with `as i32`.  A usize is kept as its bits above
\* bit 31 (hi: 0 when they are all zero), bit 31 (b) and the low 31 bits (lo),
\* which is all that comparison with these samples and the conversion need.

MaxChannels == 4095
I32Max == 2147483647

Low31 == {0, 1, 32, 1024, MaxChannels, MaxChannels + 1, 5000, I32Max}
Usize == [hi : {0, 1}, b : {0, 1}, lo : Low31]

Lit(n) == [hi |-> 0, b |-> 0, lo |-> n]

Less(x, y) ==
    \/ x.hi < y.hi
    \/ x.hi = y.hi /\ x.b < y.b
    \/ x.hi = y.hi /\ x.b = y.b /\ x.lo < y.lo

\* usize::min
UMin(x, y) == IF Less(y, x) THEN y ELSE x

\* usize as i32: the low 32 bits, read as two's complement.
AsI32(x) == x.lo - x.b * I32Max - x.b

\* max_active_channels clamped by the clamped max_virtual_channels.
InitParamsClamped(st) ==
    [max_virtual_channels |-> AsI32(UMin(st.max_virtual_channels, Lit(MaxChannels))),
     max_active_channels |->
        AsI32(UMin(st.max_active_channels,
                   UMin(st.max_virtual_channels, Lit(MaxChannels))))]

\* bridge::InitParams {..} as build computes it.
InitParams(st) ==
    [max_virtual_channels |-> AsI32(UMin(st.max_virtual_channels, Lit(MaxChannels))),
     max_active_channels |->
        AsI32(UMin(st.max_active_channels, st.max_virtual_channels))]

\* The app constructs FmodAudioPlugin {settings}.
Configure(mv, ma) ==
    /\ initSettings = {}
    /\ initSettings' = {[max_virtual_channels |-> mv, max_active_channels |-> ma]}
    /\ UNCHANGED <<initParams, notInit>>

\* build calls bridge::create(InitParams {..}).
Build ==
    /\ initSettings # {}
    /\ initParams = {}
    /\ initParams' = {InitParams(st) : st \in initSettings}
    /\ UNCHANGED <<initSettings, notInit>>

NextInit ==
    \/ \E mv \in Usize, ma \in Usize : Configure(mv, ma)
    \/ Build

SpecInit == Init /\ [][NextInit]_<<vars, others>>

----------------------------------------------------------------------------
\* update_listener.  Positions are on one axis; a rotation stands for the
\* forward and up vectors it gives; the frame time is 0 or 1.

Position == 0..MaxPosition
Rotation == {"identity", "yaw", "pitch"}
Delta == {0, 1}

\* GlobalTransform::forward / GlobalTransform::up
Forward(r) == CASE r = "identity" -> "-Z" [] r = "yaw" -> "-X" [] r = "pitch" -> "+Y"
Up(r) == CASE r = "identity" -> "+Y" [] r = "yaw" -> "+Y" [] r = "pitch" -> "+Z"

\* The if branch: the query has exactly one listener.
ListenerFound(l, position, rotation, delta) ==
    [data |-> [position |-> position,
               velocity |-> IF delta # 0
                            THEN (position - (IF l.old_position = {}
                                              THEN position
                                              ELSE CHOOSE old \in l.old_position : TRUE))
                                    \div delta
                            ELSE 0,
               forward |-> Forward(rotation),
               up |-> Up(rotation)],
     old_position |-> {position}]

\* An else branch that keeps the previous position.
ListenerLostKeeps(l) == [l EXCEPT !.data.velocity = 0]

\* An else branch that forgets the pose.
ListenerLostReset(l) == DefaultListenerData

\* The else branch: get_single() failed.
ListenerLost(l) ==
    [l EXCEPT !.data.velocity = 0, !.old_position = {}]

\* A query that answers with its first match.
GetFirst(n) == n >= 1

\* listener_entity.get_single() is Ok: the query matches exactly one entity.
GetSingle(n) == n = 1

\* n is the number of entities the query matches, those with AudioListener and
\* GlobalTransform; bare is the number of entities with AudioListener and no
\* GlobalTransform.
update_listener(n, bare, position, rotation, delta) ==
    /\ lstep = "frame"
    /\ n + bare <= MaxListeners
    /\ lframe' = {[carriers |-> n + bare, matched |-> n, was |-> present,
                   delta |-> delta, position |-> position, before |-> listener.data]}
    /\ listener' = IF GetSingle(n)
                   THEN ListenerFound(listener, position, rotation, delta)
                   ELSE ListenerLost(listener)
    /\ pushed' = {listener'.data}
    /\ present' = (n = 1)
    /\ lastPose' = IF n = 1
                   THEN [position |-> position, forward |-> Forward(rotation),
                         up |-> Up(rotation)]
                   ELSE lastPose
    /\ lstep' = "pushed"
    /\ UNCHANGED notListener

EndOfListenerFrame ==
    /\ lstep = "pushed"
    /\ lstep' = "frame"
    /\ pushed' = {}
    /\ lframe' = {}
    /\ UNCHANGED <<listener, present, lastPose, notListener>>

NextListener ==
    \/ \E n \in 0..MaxListeners, bare \in 0..MaxListeners, position \in Position,
          rotation \in Rotation, delta \in Delta :
             update_listener(n, bare, position, rotation, delta)
    \/ EndOfListenerFrame

SpecListener == Init /\ [][NextListener]_<<vars, others>>

----------------------------------------------------------------------------
\* The velocities of a frame.  Time is advanced before PostUpdate; then
\* update_listener and update_spatial_audio compute a velocity from the
\* position they kept and the frame's delta.

\* A velocity that does not look at the frame time.
SoundVelocityKept(position, old_position, d) == position - old_position

\* update_spatial_audio: `if time.timeDelta() != default() { (position -
\* instance.old_position) / time.delta_seconds() } else { Vec3::ZERO }`
SoundVelocity(position, old_position, d) ==
    IF d # 0 THEN (position - old_position) \div d ELSE 0

\* The divisor of the division above, when it is done.
Divisor(d) == IF d # 0 THEN {d} ELSE {}

\* Time is updated for the new frame.
Tick(d) ==
    /\ vstep = "time"
    /\ timeDelta' = d
    /\ vstep' = "listener"
    /\ pushed' = {}
    /\ soundPush' = {}
    /\ divisors' = {}
    /\ UNCHANGED <<sound, previous, listener, lstep, present, lastPose, lframe,
                   notVelocityListener>>

\* play_audio binds a spatial sound at position: AudioInstance {old_position:
\* position, ..}.
BindSpatial(position) ==
    /\ vstep = "time"
    /\ sound = {}
    /\ sound' = {[old_position |-> position]}
    /\ UNCHANGED <<vstep, timeDelta, soundPush, previous, divisors, notVelocity>>

\* The sound's entity is despawned.
UnbindSpatial ==
    /\ vstep = "time"
    /\ sound # {}
    /\ sound' = {}
    /\ UNCHANGED <<vstep, timeDelta, soundPush, previous, divisors, notVelocity>>

\* update_listener in this frame, with n listener entities.
ListenerVelocity(n, position, rotation) ==
    /\ vstep = "listener"
    /\ listener' = IF n = 1
                   THEN ListenerFound(listener, position, rotation, timeDelta)
                   ELSE ListenerLost(listener)
    /\ pushed' = {listener'.data}
    /\ previous' = [previous EXCEPT !.listener = listener.old_position]
    /\ divisors' = IF n = 1 THEN divisors \cup Divisor(timeDelta) ELSE divisors
    /\ vstep' = "sound"
    /\ UNCHANGED <<timeDelta, sound, soundPush, lstep, present, lastPose, lframe,
                   notVelocityListener>>

\* update_spatial_audio in this frame; has: the sound's entity has a
\* GlobalTransform, at position.
SpatialVelocity(has, position) ==
    /\ vstep = "sound"
    /\ IF has /\ sound # {}
       THEN LET old == (CHOOSE i \in sound : TRUE).old_position IN
            /\ soundPush' = {[set_position |-> TRUE, position |-> position,
                              velocity |-> SoundVelocity(position, old, timeDelta)]}
            /\ sound' = {[old_position |-> position]}
            /\ previous' = [previous EXCEPT !.sound = {old}]
            /\ divisors' = divisors \cup Divisor(timeDelta)
       ELSE UNCHANGED <<soundPush, sound, previous, divisors>>
    /\ vstep' = "time"
    /\ UNCHANGED <<timeDelta, notVelocity>>

NextVelocity ==
    \/ \E d \in Delta : Tick(d)
    \/ \E position \in Position : BindSpatial(position)
    \/ UnbindSpatial
    \/ \E n \in 0..MaxListeners, position \in Position, rotation \in Rotation :
          ListenerVelocity(n, position, rotation)
    \/ \E has \in BOOLEAN, position \in Position : SpatialVelocity(has, position)

SpecVelocity == Init /\ [][NextVelocity]_<<vars, others>>

----------------------------------------------------------------------------
\* Geometry and reverb objects are built from the component and the transform
\* the entity has when add_geometry / add_reverb first sees the component.
\* One entity; the application adds and removes the component, moves the
\* entity and edits the component.

BakedKinds == {"geometry", "reverb"}
BakedData == {0, 1}

\* A query that also takes entities whose component or transform changed.
ChangedObject(w) == w.has /\ (w.added \/ w.changed)

\* Query<(Entity, &AudioGeometry, &GlobalTransform), Added<AudioGeometry>>
\* (and the same for AudioReverbSphere): is the entity in the query.
NewObject(w) == w.has /\ w.added

EngineCall(op, k, i) == [op |-> op, k |-> k, id |-> i]

InsertBaked(k, t, d) ==
    /\ bphase = "update"
    /\ ~bworld.has
    /\ bworld' = [has |-> TRUE, kind |-> k, added |-> TRUE, changed |-> TRUE,
                  transform |-> t, data |-> d]
    /\ UNCHANGED <<bphase, bran, bevents, btable, bengine, bcalls, notBaked>>

\* The entity moves: its GlobalTransform changes.
MoveBaked(t) ==
    /\ bphase = "update"
    /\ bworld.has
    /\ t # bworld.transform
    /\ bworld' = [bworld EXCEPT !.transform = t, !.changed = TRUE]
    /\ UNCHANGED <<bphase, bran, bevents, btable, bengine, bcalls, notBaked>>

\* The application edits the component (polygons, occlusion, reverb props).
EditBaked(d) ==
    /\ bphase = "update"
    /\ bworld.has
    /\ d # bworld.data
    /\ bworld' = [bworld EXCEPT !.data = d, !.changed = TRUE]
    /\ UNCHANGED <<bphase, bran, bevents, btable, bengine, bcalls, notBaked>>

RemoveBaked ==
    /\ bphase = "update"
    /\ bworld.has
    /\ bevents < MaxEvents
    /\ bworld' = [bworld EXCEPT !.has = FALSE, !.added = FALSE, !.changed = FALSE]
    /\ bevents' = bevents + 1
    /\ UNCHANGED <<bphase, bran, btable, bengine, bcalls, notBaked>>

BakedSchedule ==
    /\ bphase = "update"
    /\ bphase' = "post"
    /\ UNCHANGED <<bran, bworld, bevents, btable, bengine, bcalls, notBaked>>

\* add_geometry / add_reverb; r is what the engine's add call returns.
AddBaked(r) ==
    /\ bphase = "post"
    /\ "add" \notin bran
    /\ r \in (EngineId \ DOMAIN bengine) \cup {Failure}
    /\ IF NewObject(bworld)
       THEN /\ bcalls' = bcalls \cup {EngineCall("add", bworld.kind, r)}
            /\ IF r = Failure
               THEN UNCHANGED <<btable, bengine>>
               ELSE /\ btable' = {r}
                    /\ bengine' = MapInsert(bengine, r,
                                      [transform |-> bworld.transform, data |-> bworld.data])
       ELSE UNCHANGED <<bcalls, btable, bengine>>
    /\ bworld' = [bworld EXCEPT !.added = FALSE, !.changed = FALSE]
    /\ bran' = bran \cup {"add"}
    /\ UNCHANGED <<bphase, bevents, notBaked>>

\* remove_geometry / remove_reverb: the first event finds the entry, the
\* others find none.
RemoveBakedPass ==
    /\ bphase = "post"
    /\ "remove" \notin bran
    /\ IF bevents > 0 /\ btable # {}
       THEN LET i == CHOOSE x \in btable : TRUE IN
            /\ bcalls' = bcalls \cup {EngineCall("free", bworld.kind, i)}
            /\ btable' = {}
            /\ bengine' = MapRemove(bengine, i)
       ELSE UNCHANGED <<bcalls, btable, bengine>>
    /\ bevents' = 0
    /\ bran' = bran \cup {"remove"}
    /\ UNCHANGED <<bphase, bworld, notBaked>>

EndOfBakedFrame ==
    /\ bphase = "post"
    /\ bran = {"add", "remove"}
    /\ bphase' = "update"
    /\ bran' = {}
    /\ bcalls' = {}
    /\ UNCHANGED <<bworld, bevents, btable, bengine, notBaked>>

NextBaked ==
    \/ \E k \in BakedKinds, t \in Position, d \in BakedData : InsertBaked(k, t, d)
    \/ \E t \in Position : MoveBaked(t)
    \/ \E d \in BakedData : EditBaked(d)
    \/ RemoveBaked
    \/ BakedSchedule
    \/ \E r \in EngineId \cup {Failure} : AddBaked(r)
    \/ RemoveBakedPass
    \/ EndOfBakedFrame

SpecBaked == Init /\ [][NextBaked]_<<vars, others>>

----------------------------------------------------------------------------
\* Spatial and non-spatial channels.  play_audio creates the channel with
\* is_positional = transform.is_some(); update_spatial_audio moves the
\* channels of the entities that have GlobalTransform and AudioInstance.

\* The application inserts or removes the entity's transform.
AddTransform(e) ==
    /\ pstep = "update"
    /\ e \notin hasTransform
    /\ hasTransform' = hasTransform \cup {e}
    /\ UNCHANGED <<pstep, pinstance, positionPush, notSpatial>>

RemoveTransform(e) ==
    /\ pstep = "update"
    /\ e \in hasTransform
    /\ hasTransform' = hasTransform \ {e}
    /\ UNCHANGED <<pstep, pinstance, positionPush, notSpatial>>

\* play_audio and the insert of AudioInstance for e, with channel id i.
PlayChannel(e, i) ==
    /\ pstep = "update"
    /\ e \notin DOMAIN pinstance
    /\ \A o \in DOMAIN pinstance : pinstance[o].id # i
    /\ pinstance' = MapInsert(pinstance, e,
                        [id |-> i, is_positional |-> e \in hasTransform])
    /\ UNCHANGED <<pstep, hasTransform, positionPush, notSpatial>>

\* The sound of e ends or is stopped.
EndChannel(e) ==
    /\ pstep = "update"
    /\ e \in DOMAIN pinstance
    /\ pinstance' = MapRemove(pinstance, e)
    /\ UNCHANGED <<pstep, hasTransform, positionPush, notSpatial>>

\* Query<(&GlobalTransform, &mut AudioInstance)>
MovedSounds == {e \in DOMAIN pinstance : e \in hasTransform}

\* update_spatial_audio: one update_channel per entity of the query.
PushPositions ==
    /\ pstep = "update"
    /\ pstep' = "post"
    /\ positionPush' = {[id |-> pinstance[e].id, set_position |-> TRUE] : e \in MovedSounds}
    /\ UNCHANGED <<hasTransform, pinstance, notSpatial>>

EndOfSpatialFrame ==
    /\ pstep = "post"
    /\ pstep' = "update"
    /\ positionPush' = {}
    /\ UNCHANGED <<hasTransform, pinstance, notSpatial>>

NextSpatial ==
    \/ \E e \in Entity : AddTransform(e)
    \/ \E e \in Entity : RemoveTransform(e)
    \/ \E e \in Entity, i \in EngineId : PlayChannel(e, i)
    \/ \E e \in Entity : EndChannel(e)
    \/ PushPositions
    \/ EndOfSpatialFrame

SpecSpatial == Init /\ [][NextSpatial]_<<vars, others>>

----------------------------------------------------------------------------
\* FmodAudioPlugin::build: the engine is created, BRIDGE is set, and then the
\* per-frame systems are added.  A system starts with
\* BRIDGE.lock().unwrap().as_mut().unwrap(), which needs an engine.

\* A build that keeps whatever create returned.
CreatedUnchecked(p) == "created"

\* `if p.is_null() { panic!("Failed to initialize audio"); }`
CreatedChecked(p) == IF p = "null" THEN "aborted" ELSE "created"

\* bridge::create returns p; build panics or stores Some(p) in BRIDGE.
CreateEngine(p) ==
    /\ startup = "building"
    /\ startup' = CreatedChecked(p)
    /\ bridge' = IF startup' = "created" THEN {p} ELSE bridge
    /\ UNCHANGED <<registered, called, missing, notStartup>>

\* app.add_systems(PostUpdate, ..) for all systems of AudioSystem.
RegisterSystems ==
    /\ startup = "created"
    /\ startup' = "registered"
    /\ registered' = AudioSystem
    /\ UNCHANGED <<bridge, called, missing, notStartup>>

\* A registered system runs in a frame.
CallEngine(s) ==
    /\ s \in registered \ called
    /\ called' = called \cup {s}
    /\ missing' = IF "engine" \in bridge THEN missing ELSE missing \cup {s}
    /\ UNCHANGED <<startup, bridge, registered, notStartup>>

EndOfStartupFrame ==
    /\ registered # {}
    /\ called = registered
    /\ called' = {}
    /\ UNCHANGED <<startup, bridge, registered, missing, notStartup>>

NextStartup ==
    \/ \E p \in {"engine", "null"} : CreateEngine(p)
    \/ RegisterSystems
    \/ \E s \in AudioSystem : CallEngine(s)
    \/ EndOfStartupFrame

SpecStartup == Init /\ [][NextStartup]_<<vars, others>>

----------------------------------------------------------------------------
\* The body of play_audio's loop for one entity.  Volume and speed are in
\* hundredths, so that the factor of AudioParameters::randomize (0.95 to 1.05)
\* is a whole number of percent.

Percent == 100
Factors == {95, Percent, 104}

Priority == {0, 128}
Distance == {1, 2}

\* AudioParameters (max_distance has one value here).
Parameters ==
    [volume : {Percent, 2 * Percent}, speed : {Percent, 2 * Percent},
     priority : Priority, min_distance : Distance, max_distance : {20}]

\* The components of the entity that the query reads: Option<&AudioLoop>,
\* Option<&AudioParameters>, Option<&AudioGroup>, Option<&GlobalTransform>.
Requests ==
    [looped : BOOLEAN,
     parameters : {{}} \cup {{p} : p \in Parameters},
     group : {{}} \cup {{g} : g \in Group},
     transform : BOOLEAN]

\* AudioParameters::randomize with the factors kv and ks.
Randomize(p, kv, ks) ==
    [p EXCEPT !.volume = (@ * kv) \div Percent, !.speed = (@ * ks) \div Percent]

\* AudioSource::params(): the stored parameters, randomized if the crate is
\* built with the feature "randomize" and randomize_params is set.
SourceParams(a, kv, ks) == IF a.randomize THEN Randomize(a.params, kv, ks) ELSE a.params

\* Parameters that are always those of the asset.
ChosenParametersOfAsset(r, a, kv, ks) == SourceParams(a, kv, ks)

\* parameters.copied().unwrap_or_else(|| sound.params())
ChosenParameters(r, a, kv, ks) ==
    IF r.parameters # {} THEN CHOOSE p \in r.parameters : TRUE
    ELSE SourceParams(a, kv, ks)

\* group.copied().unwrap_or_default().0
ChosenGroup(r) == IF r.group # {} THEN CHOOSE g \in r.group : TRUE ELSE 0

\* bridge::ChannelParams {..} without the file, the position and the delay.
ChannelParams(r, p) ==
    [group_id |-> ChosenGroup(r), priority |-> p.priority,
     is_positional |-> r.transform, min_distance |-> p.min_distance,
     max_distance |-> p.max_distance, looped |-> r.looped,
     volume |-> p.volume, pitch |-> p.speed]

\* A failure path that despawns nothing.
KeptOnFailure(r) == {}

\* `if !looped { commands.despawn_recursive(); }`
DespawnedOnFailure(r) == IF r.looped THEN {} ELSE {"despawn"}

\* The application spawns an entity with Handle<AudioSource>.
NewRequest(r) ==
    /\ preq = {}
    /\ ~played
    /\ preq' = {r}
    /\ UNCHANGED <<passet, played, playCall, playCmds, playBound, notPlay>>

\* The asset is loaded; the application may have set its params.
AssetLoaded(p, rnd) ==
    /\ passet = {}
    /\ ~played
    /\ passet' = {[params |-> p, randomize |-> rnd]}
    /\ UNCHANGED <<preq, played, playCall, playCmds, playBound, notPlay>>

\* play_audio for the request; i is what play_channel would return, kv and ks
\* what the random generator would give.
PlayRequest(i, kv, ks) ==
    /\ preq # {}
    /\ ~played
    /\ played' = TRUE
    /\ LET r == CHOOSE x \in preq : TRUE IN
       IF passet = {}
       THEN /\ playCmds' = DespawnedOnFailure(r)
            /\ UNCHANGED <<playCall, playBound>>
       ELSE LET a == CHOOSE x \in passet : TRUE IN
            /\ playCall' = {ChannelParams(r, ChosenParameters(r, a, kv, ks))}
            /\ IF i = Failure
               THEN playCmds' = DespawnedOnFailure(r) /\ playBound' = playBound
               ELSE playCmds' = {"insert"} /\ playBound' = {i}
    /\ UNCHANGED <<preq, passet, notPlay>>

\* The next request.
NextRequest ==
    /\ played
    /\ played' = FALSE
    /\ preq' = {}
    /\ passet' = {}
    /\ playCall' = {}
    /\ playCmds' = {}
    /\ playBound' = {}
    /\ UNCHANGED notPlay

NextPlay ==
    \/ \E r \in Requests : NewRequest(r)
    \/ \E p \in Parameters, rnd \in BOOLEAN : AssetLoaded(p, rnd)
    \/ \E i \in EngineId \cup {Failure}, kv \in Factors, ks \in Factors : PlayRequest(i, kv, ks)
    \/ NextRequest

SpecPlay == Init /\ [][NextPlay]_<<vars, others>>

----------------------------------------------------------------------------
\* update_audio_parameters, for one entity whose sound keeps playing.  The
\* entity's AudioInstance is inserted and removed by commands, which are
\* applied at the end of PostUpdate; mapping.ids is changed at once.

ParamSystems == {"play_audio", "stop_audio", "update_audio_parameters"}

\* The application inserts Handle<AudioSource>.
AddHandle ==
    /\ uphase = "update"
    /\ ~uworld.handle
    /\ uworld' = [uworld EXCEPT !.handle = TRUE, !.added = TRUE]
    /\ UNCHANGED <<uphase, uran, uevents, uids, ulive, ucmds, paramPush, notParams>>

\* The application removes Handle<AudioSource>.
RemoveHandle ==
    /\ uphase = "update"
    /\ uworld.handle
    /\ uevents < MaxEvents
    /\ uworld' = [uworld EXCEPT !.handle = FALSE, !.added = FALSE]
    /\ uevents' = uevents + 1
    /\ UNCHANGED <<uphase, uran, uids, ulive, ucmds, paramPush, notParams>>

\* The application inserts or changes AudioParameters.
SetParameters(p) ==
    /\ uphase = "update"
    /\ uworld' = [uworld EXCEPT !.parameters = {p}, !.changed = TRUE]
    /\ UNCHANGED <<uphase, uran, uevents, uids, ulive, ucmds, paramPush, notParams>>

ParamSchedule ==
    /\ uphase = "update"
    /\ uphase' = "post"
    /\ UNCHANGED <<uran, uworld, uevents, uids, ulive, ucmds, paramPush, notParams>>

\* play_audio for the entity (a looping sound whose asset is loaded); i is
\* what play_channel returns.
PlayEntity(i) ==
    /\ uphase = "post"
    /\ "play_audio" \notin uran
    /\ i \in (EngineId \ ulive) \cup {Failure}
    /\ IF uworld.handle /\ uworld.added /\ i # Failure
       THEN /\ ulive' = ulive \cup {i}
            /\ uids' = {i}
            /\ ucmds' = [ucmds EXCEPT !["play_audio"] = {Command("insert", 1, i)}]
       ELSE UNCHANGED <<ulive, uids, ucmds>>
    /\ uworld' = [uworld EXCEPT !.added = FALSE]
    /\ uran' = uran \cup {"play_audio"}
    /\ UNCHANGED <<uphase, uevents, paramPush, notParams>>

\* stop_audio: the first event finds the entry, if there is one.
StopEntity ==
    /\ uphase = "post"
    /\ "stop_audio" \notin uran
    /\ IF uevents > 0 /\ uids # {}
       THEN /\ ulive' = ulive \ uids
            /\ uids' = {}
            /\ ucmds' = [ucmds EXCEPT !["stop_audio"] = {Command("remove", 1, Failure)}]
       ELSE UNCHANGED <<ulive, uids, ucmds>>
    /\ uevents' = 0
    /\ uran' = uran \cup {"stop_audio"}
    /\ UNCHANGED <<uphase, uworld, paramPush, notParams>>

\* bridge::ChannelUpdateParams {set_volume_etc: true, volume, pitch, priority,
\* ..default()}
ChannelUpdateParams(p) ==
    [set_position |-> FALSE, set_volume_etc |-> TRUE, volume |-> p.volume,
     pitch |-> p.speed, priority |-> p.priority]

\* Query<(&AudioParameters, &AudioInstance), Changed<AudioParameters>>
ChangedSounds(w) == w.parameters # {} /\ w.instance # {} /\ w.changed

update_audio_parameters ==
    /\ uphase = "post"
    /\ "update_audio_parameters" \notin uran
    /\ paramPush' = IF ChangedSounds(uworld)
                    THEN {[id |-> i, params |-> ChannelUpdateParams(p)] :
                            i \in uworld.instance, p \in uworld.parameters}
                    ELSE {}
    /\ uworld' = [uworld EXCEPT !.changed = FALSE]
    /\ uran' = uran \cup {"update_audio_parameters"}
    /\ UNCHANGED <<uphase, uevents, uids, ulive, ucmds, notParams>>

\* insert(AudioInstance {..}) / remove::<AudioInstance>()
ApplyInstance(inst, cmds) ==
    IF cmds = {} THEN inst
    ELSE LET c == CHOOSE x \in cmds : TRUE
         IN IF c.op = "insert" THEN {c.id} ELSE {}

\* The end of PostUpdate: the two buffers are applied, in either order.
ApplyParamCommands(first) ==
    /\ uphase = "post"
    /\ uran = ParamSystems
    /\ first \in {"play_audio", "stop_audio"}
    /\ LET second == CHOOSE s \in {"play_audio", "stop_audio"} : s # first
       IN uworld' = [uworld EXCEPT !.instance =
                        ApplyInstance(ApplyInstance(@, ucmds[first]), ucmds[second])]
    /\ ucmds' = [s \in {"play_audio", "stop_audio"} |-> {}]
    /\ uran' = {}
    /\ paramPush' = {}
    /\ uphase' = "update"
    /\ UNCHANGED <<uevents, uids, ulive, notParams>>

NextParams ==
    \/ AddHandle
    \/ RemoveHandle
    \/ \E p \in Parameters : SetParameters(p)
    \/ ParamSchedule
    \/ \E i \in EngineId \cup {Failure} : PlayEntity(i)
    \/ StopEntity
    \/ update_audio_parameters
    \/ \E first \in {"play_audio", "stop_audio"} : ApplyParamCommands(first)

SpecParams == Init /\ [][NextParams]_<<vars, others>>

----------------------------------------------------------------------------
\* Properties.

\* A step in which system s runs.
Runs(s) == s \notin ran /\ s \in ran'

\* All systems of the frame have run and their commands are not yet applied.
EndOfSystems == phase = "post" /\ ran = Systems

\* C1: no call that takes a channel id (update_channel, is_playing_channel,
\* free_channel) is made with an id that is not the live channel of the entity
\* the call is made for.
C1_NoStaleChannelId == stale = {}

\* A request the creation pass left unbound on purpose: the asset was not
\* ready, the create call returned -1, or (geometry, reverb) the entity had no
\* GlobalTransform.
Deferred(e) == skipped[e] # "no"

\* C2: at the end of every frame an entity has an entry in the table of its
\* class exactly if it carries the request component and its creation was not
\* deferred or failed.
C2_TableMatchesRequests ==
    phase = "boundary" =>
        \A k \in Kinds : \A e \in Entity :
            (kind[e] = k /\ e \in DOMAIN Table(k)) <=> (Carries(k, e) /\ ~Deferred(e))

\* C3: within each table no two entities are mapped to the same engine id.
C3_NoSharedId ==
    \A k \in Kinds : \A e1, e2 \in DOMAIN Table(k) :
        e1 # e2 => Table(k)[e1] # Table(k)[e2]

\* Two entities are bound while an id has been freed in the same frame.
C3_Witness ==
    /\ Cardinality(DOMAIN ids) >= 2
    /\ just_removed # {}

\* C4: at every frame boundary each live channel, geometry and reverb is
\* referenced by exactly one table entry.
C4_NoLeak ==
    phase = "boundary" =>
        \A k \in Kinds : \A i \in Live(k) :
            Cardinality({e \in DOMAIN Table(k) : Table(k)[e] = i}) = 1

\* C5: no engine object is freed while it is not live, and a removal pass
\* frees exactly the objects bound to the entities of its events and logs a
\* consistency error for every event whose entity is unbound when the event
\* is handled (for a sound: unless the just_removed marker is set for it).
C5_Freed(k) ==
    Live(k) \ Live(k)' =
        {Table(k)[removed[k][n].e] :
            n \in {m \in 1..Len(removed[k]) : removed[k][m].e \in DOMAIN Table(k)}}

C5_Reported(k, marks) ==
    LET Unbound(n) ==
            LET ev == removed[k][n]
                first == \A m \in 1..(n - 1) : removed[k][m].e # ev.e
            IN /\ ev.e \notin DOMAIN Table(k) \/ ~first
               /\ ~(first /\ ev.e \in marks)
    IN errors' = errors \cup
           {Error(k, removed[k][n]) : n \in {m \in 1..Len(removed[k]) : Unbound(m)}}

C5_NoDoubleFree ==
    /\ [](badFree = {})
    /\ [][/\ Runs("stop_audio") => C5_Freed("sound") /\ C5_Reported("sound", just_removed)
          /\ Runs("remove_geometry") => C5_Freed("geometry") /\ C5_Reported("geometry", {})
          /\ Runs("remove_reverb") => C5_Freed("reverb") /\ C5_Reported("reverb", {})]_vars

\* A removal pass has met an unbound entity and logged the error.
C5_Witness == phase = "post" /\ errors # {}

\* The sounds detect_stopped_audio found stopped and asked to despawn.
Stopped == {c.e : c \in commands["detect_stopped_audio"]}

RemovalPass(k) ==
    CASE k = "sound" -> "stop_audio"
      [] k = "geometry" -> "remove_geometry"
      [] k = "reverb" -> "remove_reverb"

\* C7: once the removal pass has run, the engine object that was bound to an
\* entity when its request component left has been freed.
C7_RemovalFrees ==
    \A o \in owed : ~(phase = "post" /\ RemovalPass(o.k) \in ran)

\* C8: stop_audio logs no consistency error for a removal that the despawn
\* requested by detect_stopped_audio caused.
C8_MarkerSuppresses == \A er \in errors : er.by # "detect_stopped_audio"

\* C9, as stated: a request skipped because its asset was not loaded is tried
\* again by play_audio once the asset is loaded.
C9_Retried ==
    (phase = "post" /\ "play_audio" \in ran /\ loaded) =>
        \A e \in Entity : Sound(e) => skipped[e] # "notready"

\* C9: a request whose asset is not loaded when play_audio sees it gets no
\* play_channel call and no binding for as long as the component stays; a
\* request gets at most one play_channel call.
C9_TriedOnce ==
    \A e \in Entity :
        /\ attempts[e] <= 1
        /\ skipped[e] = "notready" => attempts[e] = 0 /\ e \notin DOMAIN ids

\* play_audio has run with the asset loaded and left a skipped request alone.
C9_Witness ==
    /\ phase = "post" /\ "play_audio" \in ran /\ loaded
    /\ \E e \in Entity : Sound(e) /\ skipped[e] = "notready"

\* C10, as stated: play_audio calls play_channel again for a request whose
\* play_channel call failed and that is still unbound.
C10_Retried ==
    [][Runs("play_audio") =>
        \A e \in Entity :
            (Sound(e) /\ skipped[e] = "failed" /\ e \notin DOMAIN ids)
                => attempts'[e] > attempts[e]]_vars

\* C10: a request whose play_channel call failed has had that one call, and
\* between frames it is still on its entity, unbound.
C10_LeftUnbound ==
    \A e \in Entity :
        (kind[e] = "sound" /\ skipped[e] = "failed") =>
            /\ attempts[e] = 1
            /\ phase # "post" => Sound(e) /\ e \notin DOMAIN ids

\* A failed looping request at a frame boundary.
C10_Witness ==
    /\ phase = "boundary"
    /\ \E e \in Entity : Sound(e) /\ skipped[e] = "failed"

\* C11: a request without AudioLoop whose play_channel call returned -1 has
\* its despawn queued by play_audio in that frame and no AudioInstance
\* insertion queued; it has no table entry when the systems of the frame have
\* run, and it is gone at the frame boundary.
C11_FailedIsDespawned ==
    \A e \in Entity : skipped[e] = "failed_unlooped" =>
        /\ phase = "post"
        /\ "play_audio" \in ran
        /\ \A c \in commands["play_audio"] : c.e = e => c.op = "despawn"
        /\ Command("despawn", e, Failure) \in commands["play_audio"]
        /\ EndOfSystems => e \notin DOMAIN ids

\* play_channel has failed for a request without AudioLoop.
C11_Witness == \E e \in Entity : skipped[e] = "failed_unlooped"

\* C14: the sound passes run in the order play_audio, stop_audio,
\* detect_stopped_audio, update_spatial_audio.
C14_FixedOrder ==
    /\ "stop_audio" \in ran => "play_audio" \in ran
    /\ "detect_stopped_audio" \in ran => "stop_audio" \in ran
    /\ "update_spatial_audio" \in ran => "detect_stopped_audio" \in ran

\* C18: free_audio_file is not issued while a channel is live.
C18_FileOutlivesChannels ==
    [][(loaded /\ ~loaded') => channels = EmptyMap]_vars

\* C12: when load_audio_file returns -1, from_memory builds no AudioSource
\* and returns: the loading thread is never in Drop::drop, blocked or
\* panicked.
C12_ReturnsNone ==
    \A t \in Loaders : pc[t] \notin {"dropping", "deadlocked", "panicked"}

\* C13: a thread that is inside an engine call, or between two engine calls
\* of one function, holds the BRIDGE guard, so at most one thread is.
C13_EngineUnderLock ==
    \A t \in Threads :
        pc[t] \in {"locked", "engine", "loaded", "dropping", "freed"} =>
            /\ holder = t
            /\ \A u \in Threads \ {t} : pc[u] # "engine"

\* A system is inside an engine call while a file loaded by the loader exists
\* and the loader is back outside from_memory.
C13_Witness ==
    /\ \E t \in SystemThreads : pc[t] = "engine"
    /\ sources # {}
    /\ \A t \in Loaders : pc[t] = "idle"

\* C15: update_system advances the engine after every other engine call of the
\* frame: no listener, settings, sound, geometry or reverb system calls the
\* engine once update_system has run.
C15_AdvanceLast == late = {}

\* C16: when AudioSettings changed, update_engine_settings pushes, before the
\* advance, groupVolume * masterVolume for every group of settings.groups
\* (masterVolume taken as zero when enabled is false) and the global engine
\* parameters; when it did not change, nothing is pushed.
C16_SettingsPushed ==
    /\ [](sstep # "advance" => groupPush = {} /\ enginePush = {})
    /\ [][(sstep = "settings" /\ sstep' = "advance") =>
            IF changed
            THEN /\ groupPush' =
                        {<<g, settings.groups[g] *
                                (IF settings.enabled THEN settings.master_volume ELSE 0)>> :
                            g \in DOMAIN settings.groups}
                 /\ enginePush' = {settings.engine}
            ELSE groupPush' = {} /\ enginePush' = {}]_<<vars, others>>

\* Sound is disabled, and a group with non-zero group and master volume was
\* pushed before the advance.
C16_Witness ==
    /\ sstep = "advance"
    /\ ~settings.enabled
    /\ settings.master_volume > 0
    /\ \E p \in groupPush : settings.groups[p[1]] > 0
    /\ enginePush # {}

\* C17: after settings propagation, every group a sound was started in had an
\* effective volume pushed, also a group without an entry in settings.groups.
C17_MasterAppliedToAll ==
    (sstep = "advance" /\ enginePush # {}) =>
        \A g \in used : \E p \in groupPush : p[1] = g

\* C19: the bounds passed to the engine's create satisfy
\* max_virtual_channels <= 4095 and max_active_channels <=
\* max_virtual_channels, and neither is negative.
C19_BoundsClamped ==
    \A p \in initParams :
        /\ p.max_virtual_channels <= MaxChannels
        /\ p.max_active_channels <= p.max_virtual_channels
        /\ p.max_virtual_channels >= 0
        /\ p.max_active_channels >= 0

\* C20: update_listener pushes a pose every frame; in a frame without a
\* listener it has the position, forward and up of the last frame that had
\* one (origin, -Z, +Y if none had) and zero velocity.
C20_PoseKept ==
    lstep = "pushed" =>
        /\ pushed # {}
        /\ ~present =>
            \A p \in pushed :
                /\ p.position = lastPose.position
                /\ p.forward = lastPose.forward
                /\ p.up = lastPose.up
                /\ p.velocity = 0

\* A frame without a listener after one whose listener was away from the
\* origin and turned.
C20_Witness ==
    /\ lstep = "pushed"
    /\ ~present
    /\ lastPose.position # 0
    /\ lastPose.forward # "-Z"
    /\ lastPose.up # "+Y"

\* C21: with a zero frame time the velocity pushed for the listener and for a
\* spatial sound is zero, otherwise it is (position - previous position) /
\* frame time; nothing is divided by zero.
C21_Velocity ==
    /\ 0 \notin divisors
    /\ \A p \in pushed :
          p.velocity =
             IF timeDelta = 0 \/ previous.listener = {} THEN 0
             ELSE (p.position - (CHOOSE o \in previous.listener : TRUE)) \div timeDelta
    /\ \A p \in soundPush :
          p.velocity =
             IF timeDelta = 0 THEN 0
             ELSE (p.position - (CHOOSE o \in previous.sound : TRUE)) \div timeDelta

\* A frame with zero frame time in which the listener and the sound moved.
C21_Witness ==
    /\ vstep = "time"
    /\ timeDelta = 0
    /\ \E p \in pushed : \E o \in previous.listener : p.position # o
    /\ \E p \in soundPush : \E o \in previous.sound : p.position # o

\* C22: once a geometry or reverb object exists, what the engine holds for it
\* never changes, the only call that names its id is its free, and a frame in
\* which the component was neither added nor removed makes no geometry or
\* reverb call, whatever happened to the transform or the component's data.
C22_BakedAtCreation ==
    [][/\ \A i \in (DOMAIN bengine) \cap (DOMAIN bengine') : bengine'[i] = bengine[i]
       /\ \A c \in bcalls' \ bcalls : c.id \in DOMAIN bengine => c.op = "free"
       /\ (bphase = "post" /\ ~(bworld.has /\ bworld.added) /\ bevents = 0) =>
              bcalls' \subseteq bcalls]_<<vars, others>>

\* Both passes have run without a call in a frame in which the bound entity
\* has another transform and other data than its engine object was built from.
C22_Witness ==
    /\ bphase = "post"
    /\ bran = {"add", "remove"}
    /\ bcalls = {}
    /\ bworld.has
    /\ \E i \in btable : /\ i \in DOMAIN bengine
                         /\ bengine[i].transform # bworld.transform
                         /\ bengine[i].data # bworld.data

\* C23: an update_channel with set_position = true goes only to channels that
\* were created with is_positional = true.
C23_OnlySpatialMoved ==
    \A p \in positionPush :
        p.set_position =>
            \A e \in DOMAIN pinstance : pinstance[e].id = p.id => pinstance[e].is_positional

\* C24: a removal event for an entity with no table entry and no marker only
\* logs the error: the table, the marker set, the queued commands and the
\* engine are as before it, and the events after it are handled (after the
\* pass no event is left and no entity of an event has an entry).
C24_ErrorChangesNothing ==
    /\ []( /\ \A j \in 1..Len(removed["sound"]) :
                LET ev == removed["sound"][j]
                    before == StopLoop([ids |-> ids, just_removed |-> just_removed,
                                        cmds |-> {}, bridge |-> Bridge, errors |-> errors],
                                       SubSeq(removed["sound"], 1, j - 1))
                    after == StopOne(before, ev)
                IN (ev.e \notin DOMAIN before.ids /\ ev.e \notin before.just_removed) =>
                       /\ after = [before EXCEPT !.errors = after.errors]
                       /\ after.errors = before.errors \cup {Error("sound", ev)}
           /\ \A k \in {"geometry", "reverb"} : \A j \in 1..Len(removed[k]) :
                LET ev == removed[k][j]
                    before == RemoveLoop([table |-> Table(k), live |-> Live(k),
                                          badFree |-> badFree, owed |-> owed,
                                          errors |-> errors],
                                         k, SubSeq(removed[k], 1, j - 1))
                    after == RemoveOne(before, k, ev)
                IN ev.e \notin DOMAIN before.table =>
                       /\ after = [before EXCEPT !.errors = after.errors]
                       /\ after.errors = before.errors \cup {Error(k, ev)} )
    /\ [][\A k \in Kinds : Runs(RemovalPass(k)) =>
              /\ removed'[k] = <<>>
              /\ \A j \in 1..Len(removed[k]) : removed[k][j].e \notin DOMAIN Table(k)']_vars

\* stop_audio has logged an error for the first of two events and freed the
\* channel of the second.
C24_Witness ==
    /\ phase = "post"
    /\ "stop_audio" \in ran
    /\ errors # {}
    /\ \E c \in commands["stop_audio"] : c.op = "remove"

\* C25: a failed creation is reported once: the removal or despawn of an
\* entity whose creation failed is not reported as a consistency error, in
\* particular not the despawn that play_audio itself requests for it.
C25_ReportedOnce == \A er \in errors : er.by # "play_audio"

\* C26: a creation pass binds an id only to an entity that has no entry in the
\* table: play_audio inserts for no entity that is in ids, and add_geometry and
\* add_reverb leave every existing entry as it is.
C26_BindIsFresh ==
    [][/\ Runs("play_audio") =>
             \A c \in commands'["play_audio"] : c.op = "insert" => c.e \notin DOMAIN ids
       /\ Runs("add_geometry") =>
             \A e \in DOMAIN geometry_mapping : geometry_mapping'[e] = geometry_mapping[e]
       /\ Runs("add_reverb") =>
             \A e \in DOMAIN reverb_mapping : reverb_mapping'[e] = reverb_mapping[e]]_vars

\* C27: when create returns null the build aborts with no per-frame system
\* registered, and no per-frame system ever runs without an engine.
C27_NoEngineNoSystems ==
    /\ startup = "aborted" => registered = {} /\ bridge = {}
    /\ registered # {} => "engine" \in bridge
    /\ missing = {}

\* create returned null and the build was aborted.
C27_Witness == startup = "aborted" /\ called = {}

\* C28: a non-looping request whose asset is not loaded when play_audio sees
\* it gets a despawn and no play_channel call; a looping one keeps its entity
\* and gets no binding.
C28_NotLoaded ==
    (played /\ passet = {}) =>
        /\ playCall = {}
        /\ playBound = {}
        /\ \A r \in preq : playCmds = IF r.looped THEN {} ELSE {"despawn"}

\* play_audio has handled a non-looping request whose asset is not loaded.
C28_Witness == played /\ passet = {} /\ \E r \in preq : ~r.looped

\* C30, as stated: the parameters passed to play_channel are those of the
\* entity's AudioParameters when it has one and the parameters stored in the
\* asset when it has none; the group is the entity's AudioGroup, or 0.
C30_AsStated ==
    \A c \in playCall : \A r \in preq : \A a \in passet :
        LET p == IF r.parameters # {} THEN CHOOSE x \in r.parameters : TRUE ELSE a.params
        IN /\ c.volume = p.volume
           /\ c.pitch = p.speed
           /\ c.priority = p.priority
           /\ c.min_distance = p.min_distance
           /\ c.max_distance = p.max_distance
           /\ c.group_id = IF r.group # {} THEN CHOOSE g \in r.group : TRUE ELSE 0

\* C30: the parameters passed to play_channel are those of the entity's
\* AudioParameters when it has one; when it has none they are the ones stored
\* in the asset, except that volume and speed are scaled by a factor from 0.95
\* to 1.05 if the asset's randomize_params is set; the group is the entity's
\* AudioGroup, or 0.
C30_Chosen ==
    \A c \in playCall : \A r \in preq : \A a \in passet :
        LET own == r.parameters # {}
            p == IF own THEN CHOOSE x \in r.parameters : TRUE ELSE a.params
            Near(x, y) == IF ~own /\ a.randomize
                          THEN 95 * y <= Percent * x /\ Percent * x < 105 * y
                          ELSE x = y
        IN /\ Near(c.volume, p.volume)
           /\ Near(c.pitch, p.speed)
           /\ c.priority = p.priority
           /\ c.min_distance = p.min_distance
           /\ c.max_distance = p.max_distance
           /\ c.group_id = IF r.group # {} THEN CHOOSE g \in r.group : TRUE ELSE 0

\* A request without AudioParameters, in a group of its own, played from an
\* asset with randomize_params with another volume than the stored one.
C30_Witness ==
    /\ played
    /\ \E c \in playCall : \E r \in preq : \E a \in passet :
          /\ r.parameters = {}
          /\ r.group # {}
          /\ c.group_id # 0
          /\ a.randomize
          /\ c.volume # a.params.volume

\* C29: update_audio_parameters issues an update_channel with the volume,
\* speed and priority of the entity's AudioParameters exactly when the
\* component of a sound instance changed since the pass last ran, and the call
\* names the channel currently bound to the entity; no distance is pushed.
C29_ParametersPushed ==
    [][(uphase = "post" /\ "update_audio_parameters" \notin uran
                        /\ "update_audio_parameters" \in uran') =>
          /\ paramPush' # {} <=>
                (uworld.instance # {} /\ uworld.parameters # {} /\ uworld.changed)
          /\ \A c \in paramPush' :
                /\ c.id \in uids
                /\ c.id \in ulive
                /\ c.params.set_volume_etc /\ ~c.params.set_position
                /\ \E p \in uworld.parameters :
                      /\ c.params.volume = p.volume
                      /\ c.params.pitch = p.speed
                      /\ c.params.priority = p.priority]_<<vars, others>>

\* C31: a frame system releases the BRIDGE guard before it returns: a system
\* thread that is outside its function, or has returned in this frame, does
\* not hold the guard, so no frame system holds it when a frame starts or ends.
C31_ReleasedOnReturn ==
    /\ \A t \in SystemThreads : (pc[t] = "idle" \/ t \in lockRan) => holder # t
    /\ (lockRan = SystemThreads \/ lockRan = {}) =>
          (\A t \in SystemThreads : pc[t] \in {"locked", "engine"} \/ holder # t)
    /\ lockRan = SystemThreads => holder \notin SystemThreads

\* Every system of the frame has taken the guard and returned, and another
\* thread holds the guard at the end of the frame.
C31_Witness ==
    /\ lockRan = SystemThreads
    /\ holder \in Loaders \cup Droppers

\* C32: no thread calls BRIDGE.lock() while it holds the guard, not even
\* through the drop of an AudioSource inside a function that holds it, and no
\* thread is blocked for ever in lock().
C32_NoRelock ==
    \A t \in Threads :
        /\ ~(pc[t] = "dropping" /\ holder = t)
        /\ pc[t] # "deadlocked"

\* The entities with a RemovedComponents<Handle<AudioSource>> event that
\* stop_audio has not read yet.
PendingRemovals == {removed["sound"][i].e : i \in 1..Len(removed["sound"])}

\* C33: a just_removed marker is transient: the removal of a marked entity is
\* always on its way to stop_audio (its event is unread, or the despawn that
\* detect_stopped_audio queued is about to raise it), a run of stop_audio
\* leaves no marker of an entity whose event it read, and between two frames
\* every marked entity is despawned with exactly one event pending, so the
\* marker is used up by the removal it was set for and by no later one.
C33_MarkerTransient ==
    /\ [](\A e \in just_removed :
             \/ e \in PendingRemovals
             \/ /\ Sound(e)
                /\ \E c \in commands["detect_stopped_audio"] :
                      c.op = "despawn" /\ c.e = e)
    /\ [][Runs("stop_audio") =>
             /\ just_removed' = just_removed \ PendingRemovals
             /\ removed'["sound"] = <<>>]_vars
    /\ [](phase = "boundary" =>
             \A e \in just_removed :
                /\ e \notin alive
                /\ Cardinality({i \in 1..Len(removed["sound"]) :
                                  removed["sound"][i].e = e}) = 1)

\* Between two frames a sound that detect_stopped_audio found stopped is
\* marked, its entity is despawned and the event of that is waiting for
\* stop_audio.
C33_Witness ==
    /\ phase = "boundary"
    /\ just_removed # {}
    /\ just_removed \subseteq PendingRemovals
    /\ just_removed \cap alive = {}

\* C34: the failure answer -1 is never stored or passed on: no entry of the
\* sound, geometry or reverb table, no AudioInstance and no queued
\* insert(AudioInstance) holds -1, -1 is no live engine object, and no free
\* call was made with -1.
C34_FailureNotStored ==
    /\ \A k \in Kinds : \A e \in DOMAIN Table(k) : Table(k)[e] # Failure
    /\ \A e \in DOMAIN instance : instance[e] # Failure
    /\ \A s \in CommandSystems : \A c \in commands[s] :
          c.op = "insert" => c.id # Failure
    /\ \A k \in Kinds : Failure \notin Live(k)
    /\ \A f \in badFree : f.id # Failure

\* A create call has answered -1 for an entity that is still there, and the
\* entity has no entry and no AudioInstance.
C34_Witness ==
    \E e \in alive :
        /\ skipped[e] = "failed"
        /\ e \in request
        /\ e \notin DOMAIN Table(kind[e])
        /\ e \notin DOMAIN instance
        /\ phase = "boundary"

\* C35: in a frame in which update_listener finds a listener after a frame in
\* which it found none, or after startup, the velocity it pushes is zero,
\* whatever the frame time and the remembered position are.
C35_ArrivalAtRest ==
    lstep = "pushed" =>
        \A f \in lframe :
            (f.matched = 1 /\ ~f.was) => \A p \in pushed : p.velocity = 0

\* A listener appears away from the remembered position of an earlier
\* listener, in a frame with a frame time.
C35_Witness ==
    /\ lstep = "pushed"
    /\ \E f \in lframe :
          /\ f.matched = 1 /\ ~f.was
          /\ f.delta # 0
          /\ f.before.position # 0
          /\ f.position # f.before.position

\* What a frame without a listener does: the pose is kept, the velocity is
\* zero and the previous position is forgotten.
AsWithoutListener(f) ==
    /\ listener.old_position = {}
    /\ \A p \in pushed :
          /\ p.position = f.before.position
          /\ p.forward = f.before.forward
          /\ p.up = f.before.up
          /\ p.velocity = 0

\* C36, as stated: in a frame in which two or more entities carry
\* AudioListener none of them is used; the frame is as one without a listener.
C36_ManyCarriers ==
    lstep = "pushed" =>
        \A f \in lframe : f.carriers >= 2 => AsWithoutListener(f)

\* C36: in a frame in which two or more entities carry AudioListener and
\* GlobalTransform none of them is used; the frame is as one without a
\* listener.
C36_ManyListeners ==
    lstep = "pushed" =>
        \A f \in lframe : f.matched >= 2 => AsWithoutListener(f)

\* Two listeners with a GlobalTransform in the frame after one that had a
\* single listener, away from the origin and turned.
C36_Witness ==
    /\ lstep = "pushed"
    /\ \E f \in lframe :
          /\ f.matched >= 2
          /\ f.was
          /\ f.before.position # 0
          /\ f.before.forward # "-Z"
          /\ f.position # f.before.position

====
